---- MODULE Spec2Model ----
(***************************************************************************)
(* Verification model of the hcm-map storytelling map.                     *)
(*                                                                         *)
(* Part 1: the journey player of components/MapView (the simpler variant   *)
(* with nested camera timers, and the richer variant with auto-play,       *)
(* completed segments and an arrival callback).                            *)
(*                                                                         *)
(* Units: time in 10 ms, zoom in tenths of a zoom level, distance in km.   *)
(* Coordinates are points of a line: place i sits at position              *)
(* 2 * coordOf[i], so the midpoint of two places is again a position.      *)
(***************************************************************************)
EXTENDS Integers, Sequences, FiniteSets, TLC

\* ------------------------------------------------------------------ bounds
NumPlaces == 3
MaxToken == 5
MaxClicks == 3
MaxEdits == 2
MaxDocLen == 3
MaxUploads == 2
MaxList == 3
MaxSteps == 2
NumSets == 2
MaxRows == 2
MaxMedia == 2
MaxGestures == 4
MaxRequests == 2

\* ------------------------------------------------------- program constants
zoomOutDuration == 120
moveDuration == 140
zoomInDuration == 95
finalZoom == 60
simpleAnimDuration == 180
minAnimDuration == 120
arrivalDelay == 8
moveDelay == zoomOutDuration + 6
simpleZoomInDelay == moveDuration + 8
loadZoom == 18
Frame == 2

Max2(a, b) == IF a >= b THEN a ELSE b
Min2(a, b) == IF a <= b THEN a ELSE b
Abs(a) == IF a >= 0 THEN a ELSE 0 - a

VARIABLES
  variant, n, routes, coordOf,
  stepIndex, stepIndexRef, hasStarted, reachedStepIndex,
  isAutoPlay, isAutoPlayRef, autoPlayTokenRef, lastAnimDurationRef,
  completedSegments, lastProgressOrder, activePlaceId,
  popup, popupViaMarker, markerMapRef, routesAnim,
  mapZoom, mapCenter, ease, lastCam,
  moveTimeout, zoomInTimeout, animation, autoNextTimeout,
  listeners, moveEndHandlerRef,
  camLog, staleRan, popupBy, animStarted, lastOp, lastArg, lastPrev, moved,
  staleAutoStep, clicks, lastCur, stoppedPending, stops

jvars == <<variant, n, routes, coordOf,
  stepIndex, stepIndexRef, hasStarted, reachedStepIndex,
  isAutoPlay, isAutoPlayRef, autoPlayTokenRef, lastAnimDurationRef,
  completedSegments, lastProgressOrder, activePlaceId,
  popup, popupViaMarker, markerMapRef, routesAnim,
  mapZoom, mapCenter, ease, lastCam,
  moveTimeout, zoomInTimeout, animation, autoNextTimeout,
  listeners, moveEndHandlerRef,
  camLog, staleRan, popupBy, animStarted, lastOp, lastArg, lastPrev, moved,
  staleAutoStep, clicks, lastCur, stoppedPending, stops>>

\* the store: the document in use (places.json or routes.json), the admin
\* editor sessions, the POSTs in flight, the media folder
VARIABLES
  store, file, editor, request, uploads, lastPut,
  lastWrite, posted, stable, roundTrip, edits

svars == <<store, file, editor, request, uploads, lastPut,
           lastWrite, posted, stable, roundTrip, edits>>

\* the map data: the inputs of MapView (the places prop, the features of
\* routes.json, whether the sort reads the route orders) and what it derives
VARIABLES
  places, routesJson, withOrder, sortedPlaces, markers, routeNodes, thrown,
  zoomInput, zoomLevels, stage, step

mvars == <<places, routesJson, withOrder, sortedPlaces, markers, routeNodes, thrown,
           zoomInput, zoomLevels, stage, step>>

\* one admin page (places or routes) as its user sees it: the array in
\* memory, the selection, the status line, the requests under way
VARIABLES
  pageKind, rows, selectedIndex, status, savedSnapshot, fetching,
  inflight, resetTimers, crashed, lastUpload, sent, uploaded, gestures

pvars == <<pageKind, rows, selectedIndex, status, savedSnapshot, fetching,
           inflight, resetTimers, crashed, lastUpload, sent, uploaded, gestures>>

\* the quiz tab; regenerated tells that the last step was a generateQuizSet
VARIABLES
  quizVariant, quizSets, quizAnswersBySet, quizSubmittedBySet, quizScoreBySet,
  activeQuizIndex, regenerated

qvars == <<quizVariant, quizSets, quizAnswersBySet, quizSubmittedBySet,
           quizScoreBySet, activeQuizIndex, regenerated>>

vars == <<jvars, svars, mvars, pvars, qvars>>

\* ------------------------------------------------------------ static data
Places == 0 .. (n - 1)

\* position of place i (place.coords)
Pos(i) == 2 * coordOf[i]

\* haversineMeters, in km, on the line of positions
haversineKm(a, b) == 350 * Abs(a - b)

isSameCoord(a, b) == a = b

\* routeByPairRef.current.get(`${from.slug}->${to.slug}`)
HasRoute(from, to) == \E f \in routes : f.from = from /\ f.to = to
RouteOf(from, to) == CHOOSE f \in routes : f.from = from /\ f.to = to

\* The route documents: one feature per consecutive hop, the same with the
\* hop 1->2 missing, or the same with a return line 1->0.  The first hop is
\* a long line (1820 km).
FullDoc(k) == { [from |-> i, to |-> i + 1, order |-> i + 1,
                 lenKm |-> IF i = 0 THEN 1820 ELSE 700] : i \in 0 .. (k - 2) }
GapDoc(k) == { f \in FullDoc(k) : f.from # 1 }
\* a journey that returns: the hop 1->0 has a line of its own
BackDoc(k) == FullDoc(k) \cup
  { [from |-> 1, to |-> 0, order |-> k, lenKm |-> 700] : i \in 1 .. Min2(1, k - 1) }
RouteDocs(k) == { FullDoc(k), GapDoc(k), BackDoc(k) }

\* Place coordinates: all different, or the last two places share theirs.
CoordDocs(k) == { [i \in 0 .. (k - 1) |-> i],
                  [i \in 0 .. (k - 1) |-> IF i = k - 1 /\ k >= 2 THEN k - 2 ELSE i] }

\* -------------------------------------------------------------- records
NoCamTimer == [on |-> FALSE, rem |-> 0, center |-> 0, zoom |-> 0,
               target |-> 0, place |-> 0, stale |-> FALSE]
NoAnim == [on |-> FALSE, rem |-> 0, from |-> 0, to |-> 0, arrival |-> FALSE,
           clStep |-> 0, clStarted |-> FALSE, stale |-> FALSE]
NoAuto == [on |-> FALSE, rem |-> 0, token |-> 0, next |-> 0,
           clStep |-> 0, clStarted |-> FALSE, stale |-> FALSE, epoch |-> 0]
NoEase == [on |-> FALSE, rem |-> 0, center |-> 0, zoom |-> 0, kind |-> "none"]
NoCam == [kind |-> "none", center |-> 0, zoom |-> 0]

\* the whole mutable state as one record, so that handlers compose
State == [
  stepIndex |-> stepIndex, stepIndexRef |-> stepIndexRef,
  hasStarted |-> hasStarted, reachedStepIndex |-> reachedStepIndex,
  isAutoPlay |-> isAutoPlay, isAutoPlayRef |-> isAutoPlayRef,
  autoPlayTokenRef |-> autoPlayTokenRef,
  lastAnimDurationRef |-> lastAnimDurationRef,
  completedSegments |-> completedSegments,
  lastProgressOrder |-> lastProgressOrder,
  activePlaceId |-> activePlaceId,
  popup |-> popup, popupViaMarker |-> popupViaMarker,
  markerMapRef |-> markerMapRef, routesAnim |-> routesAnim,
  mapZoom |-> mapZoom, mapCenter |-> mapCenter, ease |-> ease,
  lastCam |-> lastCam,
  moveTimeout |-> moveTimeout, zoomInTimeout |-> zoomInTimeout,
  animation |-> animation, autoNextTimeout |-> autoNextTimeout,
  listeners |-> listeners, moveEndHandlerRef |-> moveEndHandlerRef,
  camLog |-> camLog, staleRan |-> staleRan, popupBy |-> popupBy,
  animStarted |-> animStarted, lastOp |-> lastOp, lastArg |-> lastArg,
  lastPrev |-> lastPrev, moved |-> moved, staleAutoStep |-> staleAutoStep,
  clicks |-> clicks, lastCur |-> lastCur, stoppedPending |-> stoppedPending,
  stops |-> stops ]

Commit(s) ==
  /\ stepIndex' = s.stepIndex /\ stepIndexRef' = s.stepIndexRef
  /\ hasStarted' = s.hasStarted /\ reachedStepIndex' = s.reachedStepIndex
  /\ isAutoPlay' = s.isAutoPlay /\ isAutoPlayRef' = s.isAutoPlayRef
  /\ autoPlayTokenRef' = s.autoPlayTokenRef
  /\ lastAnimDurationRef' = s.lastAnimDurationRef
  /\ completedSegments' = s.completedSegments
  /\ lastProgressOrder' = s.lastProgressOrder
  /\ activePlaceId' = s.activePlaceId
  /\ popup' = s.popup /\ popupViaMarker' = s.popupViaMarker
  /\ markerMapRef' = s.markerMapRef /\ routesAnim' = s.routesAnim
  /\ mapZoom' = s.mapZoom /\ mapCenter' = s.mapCenter /\ ease' = s.ease
  /\ lastCam' = s.lastCam
  /\ moveTimeout' = s.moveTimeout /\ zoomInTimeout' = s.zoomInTimeout
  /\ animation' = s.animation /\ autoNextTimeout' = s.autoNextTimeout
  /\ listeners' = s.listeners /\ moveEndHandlerRef' = s.moveEndHandlerRef
  /\ camLog' = s.camLog /\ staleRan' = s.staleRan /\ popupBy' = s.popupBy
  /\ animStarted' = s.animStarted /\ lastOp' = s.lastOp
  /\ lastArg' = s.lastArg /\ lastPrev' = s.lastPrev /\ moved' = s.moved
  /\ staleAutoStep' = s.staleAutoStep /\ clicks' = s.clicks
  /\ lastCur' = s.lastCur /\ stoppedPending' = s.stoppedPending
  /\ stops' = s.stops
  /\ UNCHANGED <<variant, n, routes, coordOf>>
  /\ UNCHANGED <<svars, mvars, pvars, qvars>>


\* ------------------------------------------------------- pure helpers
\* getAutoDuration: max(minDuration, distance / speed), speed factor 1
\* (setAutoSpeed is never called, so autoSpeedFactor stays 1)
getAutoDuration(distanceKm) == Max2(minAnimDuration, Max2(0, distanceKm) \div 7)

\* delayMs of scheduleAutoNext
autoDelay(last) == Max2(80, Min2(350, last + 25))

\* a choice of level that zooms out less for the longest hops
targetZoomOutNear(distanceKm) == IF distanceKm > 4000 THEN 58 ELSE 26
\* richer variant: zoom-out level by distance thresholds
targetZoomOut(distanceKm) ==
  IF distanceKm > 4000 THEN 26
  ELSE IF distanceKm > 2000 THEN 32
  ELSE IF distanceKm > 800 THEN 38
  ELSE IF distanceKm > 200 THEN 45
  ELSE IF distanceKm > 50 THEN 52
  ELSE 58

zoomOutRich(distanceKm, baseZoom) ==
  Max2(22, Min2(targetZoomOut(distanceKm), baseZoom - 4))

\* simpler variant: zoom-out level from the current zoom only
zoomOutSimple(baseZoom) == Max2(22, Min2(baseZoom - 25, 52))

\* visiblePlaces, as the set of indices that get a marker
visiblePlaces(s) ==
  IF variant = "rich" /\ s.hasStarted
  THEN { i \in Places : i < Min2(n, s.reachedStepIndex + 1) }
  ELSE Places

RemoveAt(seq, k) ==
  IF k = 0 \/ k > Len(seq) THEN seq
  ELSE [i \in 1 .. (Len(seq) - 1) |-> IF i < k THEN seq[i] ELSE seq[i + 1]]

\* ------------------------------------------------------ map primitives
\* showPopup of applyStep, for the place the closure was created for
showPopup(s, place, by, stale) ==
  [s EXCEPT !.popup = place,
            !.popupViaMarker = (place \in s.markerMapRef),
            !.popupBy = IF stale THEN s.popupBy ELSE by,
            !.staleRan = IF stale THEN "popup" ELSE s.staleRan]

\* One registered move-end handler runs: show the popup, then unregister
\* whatever moveEndHandlerRef holds.
RECURSIVE runListeners(_, _, _)
runListeners(s, ls, by) ==
  IF ls = <<>> THEN s
  ELSE runListeners(
         [showPopup(s, Head(ls).place, by, Head(ls).stale)
            EXCEPT !.moveEndHandlerRef = 0],
         Tail(ls), by)

\* the map fires "moveend": every once-listener registered at that moment
\* is called and dropped
fireMoveEnd(s, by) ==
  [runListeners(s, s.listeners, by) EXCEPT !.listeners = <<>>]

\* map.stop(): an ease in progress ends and fires "moveend"; mapCenter and
\* mapZoom keep the view the ease started from
mapStop(s) ==
  IF s.ease.on THEN fireMoveEnd([s EXCEPT !.ease = NoEase], s.ease.kind)
  ELSE s

\* map.easeTo(): supersedes the ease in progress, then starts the new one
easeTo(s, center, zoom, duration, kind, stale) ==
  LET s1 == mapStop(s)
  IN [s1 EXCEPT
        !.ease = [on |-> TRUE, rem |-> duration, center |-> center,
                  zoom |-> zoom, kind |-> kind],
        !.lastCam = [kind |-> kind, center |-> center, zoom |-> zoom],
        !.camLog = IF stale THEN s1.camLog ELSE Append(s1.camLog, kind),
        !.staleRan = IF stale THEN "camera" ELSE s1.staleRan]

\* map.once("moveend", handler) with moveEndHandlerRef.current = handler
registerHandler(s, place, stale) ==
  [s EXCEPT !.listeners = Append(s.listeners, [place |-> place, stale |-> stale]),
            !.moveEndHandlerRef = Len(s.listeners) + 1]

\* --------------------------------------------- richer variant: handlers
\* animateSegment(feature, mode, onComplete) for an existing LineString:
\* cancels the frame callback in flight and requests a new one
animateSegment(s, from, to, arrival, cl) ==
  LET duration == getAutoDuration(RouteOf(from, to).lenKm)
  IN [s EXCEPT
        !.lastAnimDurationRef = duration,
        !.animation = [on |-> TRUE, rem |-> duration + Frame, from |-> from,
                       to |-> to, arrival |-> arrival, clStep |-> cl.step,
                       clStarted |-> cl.started, stale |-> FALSE],
        !.animStarted = s.animStarted \cup {<<from, to>>}]

\* animateSegment(undefined): clears the drawn line and returns before the
\* cancelAnimationFrame call
animateSegmentNone(s) ==
  [s EXCEPT !.routesAnim = <<>>, !.lastAnimDurationRef = minAnimDuration]

\* a commitProgress that would set reachedStepIndex to the step it is
\* called for
commitProgressLatest(s, segmentKey, clamped, cl) ==
  [s EXCEPT
     !.completedSegments = IF segmentKey = <<>> THEN s.completedSegments
                           ELSE s.completedSegments \cup {segmentKey},
     !.reachedStepIndex = IF cl.started THEN clamped ELSE s.reachedStepIndex]
\* commitProgress(segmentKey) of the applyStep call for `clamped`
commitProgress(s, segmentKey, clamped, cl) ==
  [s EXCEPT
     !.completedSegments = IF segmentKey = <<>> THEN s.completedSegments
                           ELSE s.completedSegments \cup {segmentKey},
     !.reachedStepIndex = IF cl.started THEN Max2(s.reachedStepIndex, clamped)
                          ELSE s.reachedStepIndex]

\* arrivalCallback: register the popup handler, then zoom in 80 ms later
arrivalCallback(s, place, stale) ==
  [registerHandler(s, place, stale) EXCEPT
     !.zoomInTimeout = [on |-> TRUE, rem |-> arrivalDelay, center |-> Pos(place),
                        zoom |-> finalZoom, target |-> Pos(place),
                        place |-> place, stale |-> stale]]

\* scheduleAutoNext(nextIndex)
scheduleAutoNext(s, nextIndex, cl, stale) ==
  IF ~s.isAutoPlayRef THEN s
  ELSE IF nextIndex > n - 1 THEN [s EXCEPT !.isAutoPlay = FALSE]
  ELSE IF nextIndex <= s.stepIndexRef THEN s
  ELSE [s EXCEPT !.autoNextTimeout =
          [on |-> TRUE, rem |-> autoDelay(s.lastAnimDurationRef),
           token |-> s.autoPlayTokenRef, next |-> nextIndex,
           clStep |-> cl.step, clStarted |-> cl.started,
           stale |-> stale, epoch |-> s.stops]]

\* a markProgressUpTo that would mark every hop, with or without a line
markProgressUpToAll(s, targetIndex, forceStarted, cl) ==
  IF n < 2 THEN s
  ELSE [s EXCEPT
          !.completedSegments = s.completedSegments \cup
             { <<i, i + 1>> : i \in 0 .. (Max2(0, Min2(targetIndex, n - 1)) - 1) },
          !.reachedStepIndex =
             IF cl.started \/ forceStarted
             THEN Max2(s.reachedStepIndex, Max2(0, Min2(targetIndex, n - 1)))
             ELSE s.reachedStepIndex]
\* markProgressUpTo(targetIndex, forceStarted)
markProgressUpTo(s, targetIndex, forceStarted, cl) ==
  IF n < 2 THEN s
  ELSE
    LET maxIndex == Max2(0, Min2(targetIndex, n - 1))
        keys == { <<i, i + 1>> : i \in { j \in 0 .. (maxIndex - 1) : HasRoute(j, j + 1) } }
        showProgress == cl.started \/ forceStarted
    IN [s EXCEPT
          !.completedSegments = s.completedSegments \cup keys,
          !.reachedStepIndex = IF showProgress THEN Max2(s.reachedStepIndex, maxIndex)
                               ELSE s.reachedStepIndex]

\* the camera part of applyStep (animate = true)
applyCamera(s, clamped, prevIndex, forceZoom) ==
  LET targetCenter == Pos(clamped)
      fromCenter == IF prevIndex >= 0 THEN Pos(prevIndex) ELSE s.mapCenter
  IN IF isSameCoord(fromCenter, targetCenter)
     THEN IF forceZoom
          THEN easeTo(registerHandler(s, clamped, FALSE), targetCenter,
                      finalZoom, zoomInDuration, "force", FALSE)
          ELSE showPopup(s, clamped, "same", FALSE)
     ELSE
       LET midCenter == (fromCenter + targetCenter) \div 2
           zoomOut == IF variant = "rich"
                      THEN zoomOutRich(haversineKm(fromCenter, targetCenter), s.mapZoom)
                      ELSE zoomOutSimple(s.mapZoom)
           s1 == easeTo(mapStop(s), fromCenter, zoomOut, zoomOutDuration, "zoomOut", FALSE)
       IN [s1 EXCEPT !.moveTimeout =
             [on |-> TRUE, rem |-> moveDelay, center |-> midCenter, zoom |-> zoomOut,
              target |-> targetCenter, place |-> clamped, stale |-> FALSE]]

\* applyStep(nextIndex, prevIndex, {animate: true, forceZoom}); prevIndex
\* is -1 for undefined, cl is the render whose closure is running
applyStep(s, nextIndex, prevIndex, forceZoom, cl) ==
  IF n = 0 THEN s
  ELSE
    LET clamped == Max2(0, Min2(nextIndex, n - 1))
        s1 == [s EXCEPT
                 !.activePlaceId = clamped,
                 !.popup = -1, !.popupViaMarker = FALSE,
                 !.moveTimeout = NoCamTimer, !.zoomInTimeout = NoCamTimer,
                 !.listeners = RemoveAt(s.listeners, s.moveEndHandlerRef),
                 !.moveEndHandlerRef = 0,
                 !.autoNextTimeout = NoAuto,
                 !.camLog = <<>>, !.popupBy = "none", !.animStarted = {}]
        s2 == applyCamera(s1, clamped, prevIndex, forceZoom)
        arrival == ~isSameCoord(IF prevIndex >= 0 THEN Pos(prevIndex) ELSE s1.mapCenter,
                                Pos(clamped))
        arrive(x) == IF arrival THEN arrivalCallback(x, clamped, FALSE) ELSE x
    IN IF prevIndex >= 0 /\ clamped # prevIndex
       THEN IF HasRoute(prevIndex, clamped)
            THEN animateSegment(s2, prevIndex, clamped, arrival, cl)
            ELSE IF s2.isAutoPlayRef
            THEN scheduleAutoNext(
                   arrive(commitProgress(animateSegmentNone(s2), <<>>, clamped, cl)),
                   clamped + 1, cl, FALSE)
            ELSE arrive(commitProgress(animateSegmentNone(s2), <<>>, clamped, cl))
       ELSE commitProgress(animateSegmentNone(s2), <<>>, clamped, cl)

\* everything a new step request finds pending belongs to an earlier
\* transition from now on
markStale(s) ==
  [s EXCEPT
     !.animation = [s.animation EXCEPT !.stale = s.animation.on],
     !.listeners = [i \in 1 .. Len(s.listeners) |-> [s.listeners[i] EXCEPT !.stale = TRUE]],
     !.moveTimeout = [s.moveTimeout EXCEPT !.stale = s.moveTimeout.on],
     !.zoomInTimeout = [s.zoomInTimeout EXCEPT !.stale = s.zoomInTimeout.on],
     !.autoNextTimeout = [s.autoNextTimeout EXCEPT !.stale = s.autoNextTimeout.on]]

\* setStep(nextIndex), run from the render cl
setStep(s, nextIndex, cl) ==
  LET clamped == Max2(0, Min2(nextIndex, Max2(0, n - 1)))
      prev == cl.step
      s0 == [s EXCEPT !.lastOp = "setStep", !.lastArg = nextIndex, !.lastPrev = prev,
                      !.lastCur = s.stepIndex,
                      !.moved = (n > 0 /\ Pos(prev) # Pos(clamped))]
      s1 == [s0 EXCEPT !.hasStarted = TRUE]
      s2 == IF clamped > prev + 1 THEN markProgressUpTo(s1, clamped, TRUE, cl) ELSE s1
      s3 == IF clamped # cl.step THEN [s2 EXCEPT !.stepIndex = clamped] ELSE s2
  IN IF clamped = cl.step THEN s3
     ELSE applyStep(markStale(s3), clamped, prev, FALSE, cl)

\* handleStartJourney
handleStartJourney(s, cl) ==
  LET s1 == [s EXCEPT !.hasStarted = TRUE, !.lastOp = "start", !.lastArg = 0,
                      !.lastPrev = -1, !.lastCur = s.stepIndex, !.moved = FALSE]
  IN IF n = 0 THEN s1
     ELSE applyStep([s1 EXCEPT !.stepIndex = 0, !.reachedStepIndex = 0],
                    0, -1, TRUE, cl)

\* autoPlayTokenRef.current += 1
bumpTokenReset(token) == 0
bumpToken(token) == token + 1

\* stopAutoPlay: turns auto-play off, bumps the token and clears the
\* auto-next timer; stops counts the calls
stopAutoPlay(s) ==
  [s EXCEPT !.isAutoPlayRef = FALSE, !.isAutoPlay = FALSE,
            !.stoppedPending = s.autoNextTimeout.on,
            !.stops = s.stops + 1,
            !.autoPlayTokenRef = bumpToken(s.autoPlayTokenRef),
            !.autoNextTimeout = NoAuto]

\* handleAutoToggle, from the current render
handleAutoToggle(s, cl) ==
  IF s.isAutoPlay THEN stopAutoPlay(s)
  ELSE
    LET s1 == [s EXCEPT !.autoPlayTokenRef = bumpToken(s.autoPlayTokenRef),
                        !.isAutoPlayRef = TRUE, !.isAutoPlay = TRUE]
        currentStep == IF n > 0 THEN Min2(s.stepIndex, n - 1) ELSE 0
    IN IF ~s.hasStarted THEN handleStartJourney(s1, cl)
       ELSE IF currentStep < n - 1 THEN setStep(s1, currentStep + 1, cl)
       ELSE s1

\* the effects React runs after the handler's state updates are rendered
Render(old, s) ==
  LET autoChanged == old.isAutoPlay # s.isAutoPlay
      s1 == [s EXCEPT
               !.stepIndexRef = s.stepIndex,
               !.isAutoPlayRef = IF autoChanged THEN s.isAutoPlay ELSE s.isAutoPlayRef,
               !.autoNextTimeout = IF autoChanged /\ ~s.isAutoPlay THEN NoAuto
                                   ELSE s.autoNextTimeout,
               !.autoPlayTokenRef = IF autoChanged THEN bumpToken(s.autoPlayTokenRef)
                                    ELSE s.autoPlayTokenRef]
      markersChanged == variant = "rich" /\ visiblePlaces(old) # visiblePlaces(s1)
  IN [s1 EXCEPT
        !.markerMapRef = visiblePlaces(s1),
        !.popup = IF markersChanged /\ s1.popupViaMarker THEN -1 ELSE s1.popup,
        !.popupViaMarker = IF markersChanged THEN FALSE ELSE s1.popupViaMarker]


\* -------------------------------------------- simpler variant: handlers
\* animateSegment(feature) of the simpler variant: fixed duration, no
\* completion callback
animateSegmentS(s, from, to) ==
  [s EXCEPT
     !.animation = [on |-> TRUE, rem |-> simpleAnimDuration + Frame, from |-> from,
                    to |-> to, arrival |-> FALSE, clStep |-> 0,
                    clStarted |-> FALSE, stale |-> FALSE],
     !.animStarted = s.animStarted \cup {<<from, to>>}]

animateSegmentNoneS(s) == [s EXCEPT !.routesAnim = <<>>]

\* applyStep(nextIndex, prevIndex) of the simpler variant
applyStepS(s, nextIndex, prevIndex) ==
  IF n = 0 THEN s
  ELSE
    LET clamped == Max2(0, Min2(nextIndex, n - 1))
        s1 == [s EXCEPT
                 !.activePlaceId = clamped,
                 !.popup = -1, !.popupViaMarker = FALSE,
                 !.moveTimeout = NoCamTimer, !.zoomInTimeout = NoCamTimer,
                 !.listeners = RemoveAt(s.listeners, s.moveEndHandlerRef),
                 !.moveEndHandlerRef = 0,
                 !.camLog = <<>>, !.popupBy = "none", !.animStarted = {}]
        s2 == applyCamera(s1, clamped, prevIndex, FALSE)
    IN IF prevIndex >= 0 /\ clamped # prevIndex
       THEN IF HasRoute(prevIndex, clamped)
            THEN animateSegmentS(
                   [s2 EXCEPT !.lastProgressOrder =
                      Max2(s2.lastProgressOrder, RouteOf(prevIndex, clamped).order)],
                   prevIndex, clamped)
            ELSE animateSegmentNoneS(s2)
       ELSE animateSegmentNoneS(s2)

\* setStep(nextIndex) of the simpler variant
setStepS(s, nextIndex, cl) ==
  LET clamped == Max2(0, Min2(nextIndex, Max2(0, n - 1)))
      prev == cl.step
      s0 == [s EXCEPT !.lastOp = "setStep", !.lastArg = nextIndex, !.lastPrev = prev,
                      !.lastCur = s.stepIndex,
                      !.moved = (n > 0 /\ Pos(prev) # Pos(clamped))]
      s1 == IF clamped # cl.step THEN [s0 EXCEPT !.stepIndex = clamped] ELSE s0
  IN applyStepS(markStale(s1), clamped, prev)


\* ------------------------------------------------- store at rest
Sessions == {1, 2}

\* who sends requests: the editor sessions and client 0, which talks to the
\* API without the editor
Clients == {0} \cup Sessions

\* the state of one mounted admin page before its first load returns
NewEditor == [places |-> <<>>, currentSnapshot |-> <<"[", "]">>,
              selectedIndex |-> -1, savedSnapshot |-> <<>>,
              status |-> "loading", error |-> "none", notice |-> "none",
              fetching |-> TRUE, edited |-> FALSE]
NoRequest == [phase |-> "none", wire |-> <<>>, snapshot |-> <<>>,
              payload |-> <<>>, clean |-> FALSE, code |-> 0, loaded |-> FALSE]
\* no upload yet
NoPut == [status |-> 0, type |-> "", name |-> <<>>, url |-> [folder |-> "", name |-> <<>>]]

\* the store while only the journey page is in use: "[]" on disk
StoreIdle ==
  /\ store = "places"
  /\ file = <<"[", "]", "\n">>
  /\ editor = [s \in Sessions |-> NewEditor]
  /\ request = [c \in Clients |-> NoRequest]
  /\ uploads = {}
  /\ lastPut = NoPut
  /\ lastWrite = 0
  /\ posted = [c \in Clients |-> [done |-> FALSE, doc |-> <<>>, loaded |-> FALSE]]
  /\ stable = [ok |-> FALSE, doc |-> <<>>]
  /\ roundTrip = "none"
  /\ edits = 0

\* the journey over the rendered places starts at the first of them, with
\* no camera timer and no error raised
NoStep == [index |-> 1, steps |-> 0, threw |-> "none", moveTimeout |-> "none"]

\* no upload has answered yet
NoUpload == [done |-> FALSE, ok |-> FALSE, url |-> 0, listKey |-> "", index |-> 0,
             place |-> 0, before |-> <<>>, after |-> <<>>]

\* savedSnapshot before a load or a save has set it: the empty text, which
\* is the JSON of no array
NoSnapshot == <<[id |-> 0, images |-> <<>>, audio |-> 0]>>

\* the admin page and the quiz tab while they are not looked at
PageIdle ==
  /\ pageKind = "places" /\ rows = <<>> /\ selectedIndex = -1
  /\ status = "idle" /\ savedSnapshot = NoSnapshot /\ fetching = FALSE
  /\ inflight = {} /\ resetTimers = 0 /\ crashed = FALSE
  /\ lastUpload = NoUpload /\ sent = 0 /\ uploaded = 0 /\ gestures = 0

QuizIdle ==
  /\ quizVariant = "rich" /\ quizSets = <<>>
  /\ quizAnswersBySet = <<>> /\ quizSubmittedBySet = <<>> /\ quizScoreBySet = <<>>
  /\ activeQuizIndex = -1 /\ regenerated = FALSE

\* the map data while the journey or the store is looked at: no place, no
\* route, nothing derived
MapIdle ==
  /\ places = <<>> /\ routesJson = <<>> /\ withOrder = TRUE
  /\ sortedPlaces = <<>> /\ markers = {} /\ routeNodes = <<>> /\ thrown = FALSE
  /\ zoomInput = [variant |-> "rich", baseZoom |-> loadZoom, near |-> 0, far |-> 0]
  /\ zoomLevels = <<>> /\ step = NoStep
  /\ stage = "idle"

\* ------------------------------------------------------ journey: Init
\* The state once the map has loaded: the load handler has run
\* applyStep(initialIndex, undefined, {animate: false}) and the mount
\* effects have run once.
JInit ==
  /\ variant \in {"rich", "simple"}
  /\ n \in {0, NumPlaces}
  /\ routes \in RouteDocs(n)
  /\ coordOf \in CoordDocs(n)
  /\ stepIndex = 0 /\ stepIndexRef = 0
  /\ hasStarted = FALSE /\ reachedStepIndex = 0
  /\ isAutoPlay = FALSE /\ isAutoPlayRef = FALSE
  /\ autoPlayTokenRef = 1
  /\ lastAnimDurationRef = IF variant = "rich" /\ n > 0 THEN minAnimDuration ELSE 0
  /\ completedSegments = {} /\ lastProgressOrder = 0
  /\ activePlaceId = IF n > 0 THEN 0 ELSE -1
  /\ popup = -1 /\ popupViaMarker = FALSE
  /\ markerMapRef = 0 .. (n - 1)
  /\ routesAnim = <<>>
  /\ mapZoom = loadZoom /\ mapCenter = 0
  /\ ease = NoEase /\ lastCam = NoCam
  /\ moveTimeout = NoCamTimer /\ zoomInTimeout = NoCamTimer
  /\ animation = NoAnim /\ autoNextTimeout = NoAuto
  /\ listeners = <<>> /\ moveEndHandlerRef = 0
  /\ camLog = <<>> /\ staleRan = "none" /\ popupBy = "none" /\ animStarted = {}
  /\ lastOp = "load" /\ lastArg = 0 /\ lastPrev = -1 /\ moved = FALSE
  /\ staleAutoStep = FALSE
  /\ clicks = 0
  /\ lastCur = 0 /\ stoppedPending = FALSE /\ stops = 0

\* the component is mounted until its cleanup has run
Mounted == lastOp # "unmount"

\* a user gesture; the model follows MaxClicks of them
Click(s) == [s EXCEPT !.clicks = s.clicks + 1]

\* the render a user-triggered handler closes over is the current one
CurrentRender == [step |-> stepIndex, started |-> hasStarted]
currentStep == IF n > 0 THEN Min2(stepIndex, n - 1) ELSE 0

\* --------------------------------------------------- journey: user input
\* slider or list click: setStep(i)
SetStep ==
  \E i \in -1 .. n :
    LET s0 == Click(State)
    IN Mounted /\ clicks < MaxClicks /\ Commit(Render(State, IF variant = "rich"
                            THEN setStep(s0, i, CurrentRender)
                            ELSE setStepS(s0, i, CurrentRender)))

\* the previous / next buttons
PrevNext ==
  \E d \in {-1, 1} :
    /\ n > 0
    /\ IF d = -1 THEN currentStep > 0 ELSE currentStep < n - 1
    /\ variant = "rich" => (hasStarted /\ autoPlayTokenRef < MaxToken)
    /\ Mounted /\ clicks < MaxClicks
    /\ LET s0 == Click(State)
       IN Commit(Render(State, IF variant = "rich"
                               THEN setStep(stopAutoPlay(s0), currentStep + d, CurrentRender)
                               ELSE setStepS(s0, currentStep + d, CurrentRender)))

\* the start button, shown until the journey has started
StartJourney ==
  /\ variant = "rich" /\ ~hasStarted
  /\ Mounted /\ clicks < MaxClicks
  /\ Commit(Render(State, handleStartJourney(Click(State), CurrentRender)))

\* the auto-play button
AutoToggle ==
  /\ variant = "rich" /\ autoPlayTokenRef < MaxToken
  /\ Mounted /\ clicks < MaxClicks
  /\ Commit(Render(State, handleAutoToggle(Click(State), CurrentRender)))

\* the user drags the map before touching the journey controls: the centre
\* moves off the first place, to the position next to it
UserPan ==
  /\ n > 0 /\ lastOp = "load" /\ ~ease.on
  /\ mapCenter = Pos(0)
  /\ Commit([State EXCEPT !.mapCenter = Pos(0) + 1])

\* ------------------------------------------------ journey: callbacks
\* the phase-2 timer: pan to the midpoint; the simpler variant chains the
\* phase-3 timer from here
FireMoveTimeout ==
  /\ moveTimeout.on /\ moveTimeout.rem = 0
  /\ LET t == moveTimeout
           s1 == easeTo(State, t.center, t.zoom, moveDuration, "pan", t.stale)
           s2 == [s1 EXCEPT
                    !.moveTimeout = NoCamTimer,
                    !.zoomInTimeout =
                      IF variant = "simple"
                      THEN [on |-> TRUE, rem |-> simpleZoomInDelay, center |-> t.target,
                            zoom |-> finalZoom, target |-> t.target,
                            place |-> t.place, stale |-> t.stale]
                      ELSE s1.zoomInTimeout]
       IN Commit(Render(State, s2))

\* the phase-3 timer: zoom in on the destination; the simpler variant
\* registers the popup handler here
FireZoomInTimeout ==
  /\ zoomInTimeout.on /\ zoomInTimeout.rem = 0
  /\ LET t == zoomInTimeout
           s0 == State
           s1 == IF variant = "simple" THEN registerHandler(s0, t.place, t.stale) ELSE s0
           s2 == easeTo(s1, t.center, finalZoom, zoomInDuration, "zoomIn", t.stale)
       IN Commit(Render(State, [s2 EXCEPT !.zoomInTimeout = NoCamTimer]))

\* a frame of the draw-in animation before its last one
AnimTick ==
  /\ animation.on /\ animation.rem > 0
  /\ Commit([State EXCEPT
       !.routesAnim = <<animation.from, animation.to>>,
       !.staleRan = IF animation.stale THEN "redraw" ELSE staleRan])

\* the last frame of the draw-in animation (t = 1): onComplete
FireAnimComplete ==
  /\ animation.on /\ animation.rem = 0
  /\ LET t == animation
         cl == [step |-> t.clStep, started |-> t.clStarted]
         s0 == [State EXCEPT
                  !.animation = NoAnim,
                  !.routesAnim = <<t.from, t.to>>,
                  !.staleRan = IF ~t.stale THEN staleRan
                               ELSE IF variant = "rich" THEN "commit" ELSE "redraw"]
         s1 == commitProgress(s0, <<t.from, t.to>>, t.to, cl)
         s2 == IF t.arrival THEN arrivalCallback(s1, t.to, t.stale) ELSE s1
         s3 == scheduleAutoNext(s2, t.to + 1, cl, t.stale)
     IN Commit(Render(State, IF variant = "rich" THEN s3 ELSE s0))

\* the auto-next timer
FireAutoNext ==
  /\ autoNextTimeout.on /\ autoNextTimeout.rem = 0
  /\ LET t == autoNextTimeout
           s0 == [State EXCEPT !.autoNextTimeout = NoAuto]
           s1 == [s0 EXCEPT !.staleAutoStep = s0.staleAutoStep \/ t.epoch < stops]
       IN Commit(Render(State,
            IF autoPlayTokenRef # t.token THEN s0
            ELSE setStep(s1, t.next, [step |-> t.clStep, started |-> t.clStarted])))

\* the camera ease in progress reaches its target: "moveend"
FireEaseEnd ==
  /\ ease.on /\ ease.rem = 0
  /\ Commit(Render(State,
       fireMoveEnd([State EXCEPT !.ease = NoEase, !.mapCenter = ease.center,
                                 !.mapZoom = ease.zoom], ease.kind)))

\* ------------------------------------------------------ journey: time
Pending ==
  (IF moveTimeout.on THEN {moveTimeout.rem} ELSE {}) \cup
  (IF zoomInTimeout.on THEN {zoomInTimeout.rem} ELSE {}) \cup
  (IF animation.on THEN {animation.rem} ELSE {}) \cup
  (IF autoNextTimeout.on THEN {autoNextTimeout.rem} ELSE {}) \cup
  (IF ease.on THEN {ease.rem} ELSE {})

Quiet == Pending = {}

dec(t, d) == IF t.on THEN [t EXCEPT !.rem = t.rem - d] ELSE t

\* time passes until the next timer, frame or ease is due
Advance ==
  /\ Pending # {} /\ 0 \notin Pending
  /\ LET d == CHOOSE x \in Pending : \A y \in Pending : x <= y
     IN Commit([State EXCEPT
          !.moveTimeout = dec(moveTimeout, d),
          !.zoomInTimeout = dec(zoomInTimeout, d),
          !.animation = dec(animation, d),
          !.autoNextTimeout = dec(autoNextTimeout, d),
          !.ease = dec(ease, d)])

\* a click on the marker of another place while the map is at rest: the
\* listener the markers effect attached sets activePlaceId (the popup toggle
\* of the map library is not followed)
MarkerClick ==
  /\ Mounted /\ clicks < MaxClicks /\ Pending = {}
  /\ \E key \in markerMapRef :
       /\ key # activePlaceId
       /\ Commit([Click(State) EXCEPT !.activePlaceId = key])

\* a cleanup that would leave the auto-next timer alone
cleanupCamera(s) ==
  [s EXCEPT
     !.animation = NoAnim,
     !.moveTimeout = NoCamTimer, !.zoomInTimeout = NoCamTimer,
     !.listeners = RemoveAt(s.listeners, s.moveEndHandlerRef),
     !.moveEndHandlerRef = 0,
     !.ease = NoEase]
\* the cleanups of the mount effects: cancel the animation frame, clear the
\* two camera timers, unregister the move-end handler, remove the map (an
\* ease in progress ends without a move-end), clear the auto-next timer
cleanup(s) ==
  [s EXCEPT
     !.animation = NoAnim,
     !.moveTimeout = NoCamTimer, !.zoomInTimeout = NoCamTimer,
     !.listeners = RemoveAt(s.listeners, s.moveEndHandlerRef),
     !.moveEndHandlerRef = 0,
     !.ease = NoEase,
     !.autoNextTimeout = NoAuto]

\* the component unmounts; moved records whether anything was pending
Unmount ==
  /\ Mounted
  /\ Commit([cleanup(State) EXCEPT !.lastOp = "unmount", !.moved = (Pending # {})])

JNext ==
  \/ SetStep
  \/ PrevNext
  \/ StartJourney
  \/ AutoToggle
  \/ UserPan
  \/ MarkerClick
  \/ Unmount
  \/ FireMoveTimeout
  \/ FireZoomInTimeout
  \/ AnimTick
  \/ FireAnimComplete
  \/ FireAutoNext
  \/ FireEaseEnd
  \/ Advance

Init == JInit /\ StoreIdle /\ MapIdle /\ PageIdle /\ QuizIdle

Next == JNext

Spec == Init /\ [][Next]_vars


\* ===================================================== journey claims

\* C1: every setStep that starts a new transition first cancels whatever
\* the previous transition left pending, so that no callback of an earlier
\* transition (segment redraw, camera move, progress commit, popup) runs
\* after a later step request.
C1_NoStaleCallback == staleRan = "none"

\* C2: once a setStep to a place with other coordinates has run to
\* quiescence, the last camera command is the ease to that place at the
\* close zoom level and the popup shown is that place's.
C2_CameraMatchesStep ==
  (Quiet /\ lastOp = "setStep" /\ moved)
    => (/\ lastCam.center = Pos(stepIndex)
        /\ lastCam.zoom = finalZoom
        /\ popup = stepIndex)


Clamp(i) == Min2(Max2(i, 0), n - 1)

\* C3: setStep(i) leaves stepIndex = min(max(i, 0), n - 1) for n >= 1, so
\* 0 <= stepIndex <= n - 1 always, and stepIndex stays 0 when n = 0.
C3_Clamp ==
  /\ (n >= 1 /\ lastOp = "setStep") => stepIndex = Clamp(lastArg)
  /\ n >= 1 => stepIndex \in 0 .. (n - 1)
  /\ n = 0 => stepIndex = 0

\* C4: a setStep more than one step ahead of the current step marks the
\* intervening hops completed and animates exactly the final hop
\* (target - 1 -> target).
C4_JumpAnimatesFinalHop ==
  (variant = "rich" /\ lastOp = "setStep" /\ stepIndex > lastCur + 1
     /\ HasRoute(stepIndex - 1, stepIndex))
    => (/\ \A i \in lastCur .. (stepIndex - 1) :
             HasRoute(i, i + 1) => <<i, i + 1>> \in completedSegments
        /\ animStarted = {<<stepIndex - 1, stepIndex>>})

\* C5: while auto-play is on, the journey does not come to rest before the
\* last place: something is always pending that will issue the next step.
C5_AutoNeverStalls ==
  ~(variant = "rich" /\ isAutoPlay /\ Quiet /\ stepIndex < n - 1)

\* C6: no auto-next callback scheduled before a stopAutoPlay() invokes
\* setStep afterwards, and the auto-play token never decreases.
C6_StopInvalidates ==
  /\ [](~staleAutoStep)
  /\ [][autoPlayTokenRef' >= autoPlayTokenRef]_vars

C6_Witness == stoppedPending /\ ~isAutoPlay /\ ~autoNextTimeout.on

\* C7: a transition issues its eases in the order zoom-out, pan to the
\* midpoint, zoom-in; the pan never follows the zoom-in.
C7_CameraOrder ==
  \A i, j \in 1 .. Len(camLog) :
    (i < j) => ~(camLog[i] = "zoomIn" /\ camLog[j] = "pan")

\* C8: the destination's popup is opened by the move-end that ends the
\* zoom-in ease to the destination, never by an earlier move-end.
C8_PopupOnArrival ==
  /\ popupBy \in {"none", "same", "zoomIn", "force"}
  /\ popupBy \in {"zoomIn", "force"}
       => \E i \in 1 .. Len(camLog) : camLog[i] = popupBy

\* C18: a step issued by the auto-play timer is a single hop: setStep hands
\* applyStep the previous index target - 1, marks no other segment
\* completed, starts the animation of the hop's own line when there is one,
\* and the camera sets off from place target - 1.
C18_AutoSingleHop ==
  [][(FireAutoNext /\ autoPlayTokenRef = autoNextTimeout.token)
       => /\ lastPrev' = autoNextTimeout.next - 1
          /\ completedSegments' = completedSegments
          /\ HasRoute(autoNextTimeout.next - 1, autoNextTimeout.next)
               => animStarted' = {<<autoNextTimeout.next - 1, autoNextTimeout.next>>}
          /\ lastCam'.kind = "zoomOut"
               => lastCam'.center = Pos(autoNextTimeout.next - 1)
    ]_vars

\* C19: once handleStartJourney with at least one place has run to
\* quiescence, wherever the map was centred, the last camera command is the
\* ease to place 0 at the close zoom level and place 0's popup is shown.
C19_StartReachesFirst ==
  (Quiet /\ lastOp = "start" /\ n >= 1)
    => (/\ lastCam.center = Pos(0)
        /\ lastCam.zoom = finalZoom
        /\ popup = 0)

\* C22: once the journey has started and the transition in progress has
\* run to its end, reachedStepIndex >= stepIndex and the place at stepIndex
\* has a marker.
C22_CurrentPlaceVisible ==
  (variant = "rich" /\ n > 0 /\ hasStarted /\ Quiet)
    => (/\ reachedStepIndex >= stepIndex
        /\ stepIndex \in markerMapRef)

\* C23: a setStep that jumps more than one step ahead to step k leaves in
\* completedSegments the key of every hop i -> i+1 below k that has a route
\* line, and adds no key of a hop without one.
C23_JumpMarksRoutedHops ==
  [][((SetStep \/ PrevNext \/ AutoToggle \/ FireAutoNext)
        /\ variant = "rich" /\ n > 0 /\ lastOp' = "setStep"
        /\ Clamp(lastArg') > lastPrev' + 1)
       => /\ \A i \in 0 .. (Clamp(lastArg') - 1) :
               HasRoute(i, i + 1) => <<i, i + 1>> \in completedSegments'
          /\ \A key \in completedSegments' \ completedSegments :
               /\ HasRoute(key[1], key[2])
               /\ key[2] = key[1] + 1 /\ key[1] < Clamp(lastArg')
    ]_vars

C23_Witness ==
  /\ variant = "rich" /\ lastOp = "setStep" /\ lastArg = 2 /\ lastPrev = 0
  /\ ~HasRoute(1, 2)
  /\ completedSegments = {<<0, 1>>}

\* C24: progress never regresses: no key ever leaves completedSegments,
\* reachedStepIndex never decreases once the journey has started (richer
\* variant), and lastProgressOrder never decreases (simpler variant).
C24_ProgressMonotone ==
  [][/\ completedSegments \subseteq completedSegments'
     /\ (variant = "rich" /\ hasStarted) => reachedStepIndex' >= reachedStepIndex
     /\ variant = "simple" => lastProgressOrder' >= lastProgressOrder
    ]_vars

C24_Witness ==
  /\ variant = "rich" /\ lastOp = "setStep" /\ stepIndex = 0
  /\ reachedStepIndex = 2 /\ completedSegments # {}
\* C25: after the map has loaded, activePlaceId is the key of the place at
\* stepIndex, whatever setStep calls, list clicks and marker clicks have
\* happened.
C25_ActiveFollowsStep ==
  n > 0 => activePlaceId = stepIndex
\* C29: once the component has unmounted no journey callback fires: no
\* camera timer, animation frame, move-end or auto-next timer takes a step.
C29_UnmountCancelsAll ==
  [][Mounted]_vars

C29_Witness ==
  /\ variant = "rich" /\ ~Mounted /\ moved /\ isAutoPlay /\ stepIndex < n - 1

\* ================================================================ store
\* Part 2: the places document behind /api/places and the admin editor.
\* A text is a sequence of one-character strings.

QUOTE == "\""
BSLASH == "\\"
NL == "\n"
Digits == <<"0", "1", "2", "3", "4", "5", "6", "7", "8", "9">>
DigitChar(d) == Digits[d + 1]
IsDigit(c) == \E d \in 0 .. 9 : Digits[d + 1] = c
DigitVal(c) == CHOOSE d \in 0 .. 9 : Digits[d + 1] = c

\* JSON values: null, number (in tenths), string, array, object (keys in
\* insertion order)
JNull == [t |-> "null", k |-> 0, s |-> <<>>, keys |-> <<>>, items |-> <<>>]
JNum(k) == [t |-> "num", k |-> k, s |-> <<>>, keys |-> <<>>, items |-> <<>>]
JStr(s) == [t |-> "str", k |-> 0, s |-> s, keys |-> <<>>, items |-> <<>>]
JArr(items) == [t |-> "arr", k |-> 0, s |-> <<>>, keys |-> <<>>, items |-> items]
JObj(keys, items) == [t |-> "obj", k |-> 0, s |-> <<>>, keys |-> keys, items |-> items]

\* ---------------------------------------------------- JSON.stringify
RECURSIVE intDigits(_)
intDigits(m) ==
  IF m < 10 THEN <<DigitChar(m)>>
  ELSE intDigits(m \div 10) \o <<DigitChar(m % 10)>>

\* Number::toString of a non-negative a / 10
unsignedToString(a) ==
  intDigits(a \div 10) \o (IF a % 10 = 0 THEN <<>> ELSE <<".", DigitChar(a % 10)>>)

\* Number::toString of k / 10
numberToString(k) ==
  IF k < 0 THEN <<"-">> \o unsignedToString(0 - k) ELSE unsignedToString(k)

\* QuoteJSONString: one character of the string
escapeChar(c) ==
  IF c = QUOTE THEN <<BSLASH, QUOTE>>
  ELSE IF c = BSLASH THEN <<BSLASH, BSLASH>>
  ELSE IF c = NL THEN <<BSLASH, "n">>
  ELSE <<c>>

RECURSIVE escapeAll(_)
escapeAll(s) == IF s = <<>> THEN <<>> ELSE escapeChar(Head(s)) \o escapeAll(Tail(s))

quote(s) == <<QUOTE>> \o escapeAll(s) \o <<QUOTE>>

indentOf(gap, depth) == [i \in 1 .. (gap * depth) |-> " "]
lineBreak(gap, depth) == IF gap = 0 THEN <<>> ELSE <<NL>> \o indentOf(gap, depth)

\* the name part of an object's member: "key": or "key":
memberName(key, gap) == quote(key) \o (IF gap = 0 THEN <<":">> ELSE <<":", " ">>)

RECURSIVE stringify(_, _, _)
RECURSIVE serMembers(_, _, _, _, _)

\* the members of an array or object, at nesting depth `depth`
serMembers(isObj, keys, items, gap, depth) ==
  IF items = <<>> THEN <<>>
  ELSE (IF isObj THEN memberName(Head(keys), gap) ELSE <<>>)
         \o stringify(Head(items), gap, depth)
         \o (IF Len(items) = 1 THEN <<>>
             ELSE <<",">> \o lineBreak(gap, depth)
                    \o serMembers(isObj, IF isObj THEN Tail(keys) ELSE keys,
                                  Tail(items), gap, depth))

\* JSON.stringify(value, null, gap) below nesting depth `depth`
stringify(v, gap, depth) ==
  IF v.t = "null" THEN <<"n", "u", "l", "l">>
  ELSE IF v.t = "num" THEN numberToString(v.k)
  ELSE IF v.t = "str" THEN quote(v.s)
  ELSE IF v.items = <<>> THEN IF v.t = "obj" THEN <<"{", "}">> ELSE <<"[", "]">>
  ELSE <<IF v.t = "obj" THEN "{" ELSE "[">> \o lineBreak(gap, depth + 1)
         \o serMembers(v.t = "obj", v.keys, v.items, gap, depth + 1)
         \o lineBreak(gap, depth) \o <<IF v.t = "obj" THEN "}" ELSE "]">>

JSON_stringify(v, gap) == stringify(v, gap, 0)

\* -------------------------------------------------------- JSON.parse
\* a parse result: the value read and the text left after it and the white
\* space that follows it; ok = FALSE is the SyntaxError
Fail == [ok |-> FALSE, val |-> JNull, rest |-> <<>>]
Drop(cs, k) == SubSeq(cs, k + 1, Len(cs))

RECURSIVE skipWs(_)
skipWs(cs) ==
  IF cs # <<>> /\ Head(cs) \in {" ", NL} THEN skipWs(Tail(cs)) ELSE cs

Parsed(val, rest) == [ok |-> TRUE, val |-> val, rest |-> skipWs(rest)]

\* the next character of the text is c
At(cs, c) == cs # <<>> /\ Head(cs) = c

\* the character an escape sequence stands for ("" for none)
unescapeChar(c) ==
  IF c = QUOTE THEN QUOTE
  ELSE IF c = BSLASH THEN BSLASH
  ELSE IF c = "n" THEN NL
  ELSE ""

\* the characters of a string literal, after the opening quote
RECURSIVE parseChars(_, _)
parseChars(cs, acc) ==
  IF cs = <<>> \/ At(cs, NL) THEN Fail
  ELSE IF At(cs, QUOTE) THEN Parsed(JStr(acc), Tail(cs))
  ELSE IF At(cs, BSLASH)
  THEN IF Len(cs) < 2 \/ unescapeChar(cs[2]) = "" THEN Fail
       ELSE parseChars(Drop(cs, 2), Append(acc, unescapeChar(cs[2])))
  ELSE parseChars(Tail(cs), Append(acc, Head(cs)))

\* a run of digits: [val, len]
RECURSIVE parseDigits(_, _, _)
parseDigits(cs, val, len) ==
  IF cs # <<>> /\ IsDigit(Head(cs))
  THEN parseDigits(Tail(cs), 10 * val + DigitVal(Head(cs)), len + 1)
  ELSE [val |-> val, len |-> len, rest |-> cs]

\* a number literal after its integer part and its fraction; the model
\* keeps one fractional digit
numberAfterFrac(whole, frac) ==
  IF frac.len # 1 THEN Fail ELSE Parsed(JNum(10 * whole + frac.val), frac.rest)

numberAfterInt(int) ==
  IF int.len = 0 THEN Fail
  ELSE IF At(int.rest, ".")
  THEN numberAfterFrac(int.val, parseDigits(Tail(int.rest), 0, 0))
  ELSE Parsed(JNum(10 * int.val), int.rest)

parseUnsigned(cs) ==
  numberAfterInt(IF At(cs, "0") THEN [val |-> 0, len |-> 1, rest |-> Tail(cs)]
                 ELSE parseDigits(cs, 0, 0))

negated(r) == IF r.ok THEN [r EXCEPT !.val.k = 0 - @] ELSE Fail

\* a number literal
parseNumber(cs) ==
  IF At(cs, "-") THEN negated(parseUnsigned(Tail(cs))) ELSE parseUnsigned(cs)

\* objects keep the first position of a repeated key and its last value
putMember(obj, key, val) ==
  IF \E i \in 1 .. Len(obj.keys) : obj.keys[i] = key
  THEN JObj(obj.keys,
            [obj.items EXCEPT ![CHOOSE j \in 1 .. Len(obj.keys) : obj.keys[j] = key] = val])
  ELSE JObj(Append(obj.keys, key), Append(obj.items, val))

RECURSIVE parseValue(_)
RECURSIVE parseElems(_, _)
RECURSIVE parseMembers(_, _)

\* an array after its element r
elemsAfter(r, acc) ==
  IF ~r.ok THEN Fail
  ELSE IF At(r.rest, ",") THEN parseElems(Tail(r.rest), Append(acc, r.val))
  ELSE IF At(r.rest, "]") THEN Parsed(JArr(Append(acc, r.val)), Tail(r.rest))
  ELSE Fail

\* the elements of an array, after "[" or ","
parseElems(cs, acc) == elemsAfter(parseValue(cs), acc)

\* an object after the value r of its member named key
memberAfterValue(key, r, obj) ==
  IF ~r.ok THEN Fail
  ELSE IF At(r.rest, ",")
  THEN parseMembers(skipWs(Tail(r.rest)), putMember(obj, key, r.val))
  ELSE IF At(r.rest, "}") THEN Parsed(putMember(obj, key, r.val), Tail(r.rest))
  ELSE Fail

\* an object after the name of a member
memberAfterKey(key, obj) ==
  IF key.ok /\ At(key.rest, ":")
  THEN memberAfterValue(key.val.s, parseValue(Tail(key.rest)), obj)
  ELSE Fail

\* the members of an object, after "{" or ","
parseMembers(cs, obj) ==
  IF At(cs, QUOTE) THEN memberAfterKey(parseChars(Tail(cs), <<>>), obj) ELSE Fail

\* a value that starts at the first character of cs
valueAt(cs) ==
  IF cs = <<>> THEN Fail
  ELSE IF At(cs, "[")
  THEN IF At(skipWs(Tail(cs)), "]") THEN Parsed(JArr(<<>>), Tail(skipWs(Tail(cs))))
       ELSE parseElems(Tail(cs), <<>>)
  ELSE IF At(cs, "{")
  THEN IF At(skipWs(Tail(cs)), "}") THEN Parsed(JObj(<<>>, <<>>), Tail(skipWs(Tail(cs))))
       ELSE parseMembers(skipWs(Tail(cs)), JObj(<<>>, <<>>))
  ELSE IF At(cs, QUOTE) THEN parseChars(Tail(cs), <<>>)
  ELSE IF At(cs, "n")
  THEN IF Len(cs) >= 4 /\ SubSeq(cs, 1, 4) = <<"n", "u", "l", "l">>
       THEN Parsed(JNull, Drop(cs, 4)) ELSE Fail
  ELSE IF At(cs, "-") \/ IsDigit(Head(cs)) THEN parseNumber(cs)
  ELSE Fail

parseValue(cs) == valueAt(skipWs(cs))

\* one value and nothing after it
wholeText(r) == IF r.ok /\ r.rest = <<>> THEN r ELSE Fail

\* JSON.parse(text)
JSON_parse(text) == wholeText(parseValue(text))

\* --------------------------------------------------- place documents
KeyPlaces == <<"p", "l", "a", "c", "e", "s">>
KeyTitle == <<"t", "i", "t", "l", "e">>
KeyCoords == <<"c", "o", "o", "r", "d", "s">>
KeySlug == <<"s", "l", "u", "g">>
KeyTags == <<"t", "a", "g", "s">>
KeyMedia == <<"m", "e", "d", "i", "a">>
KeyCover == <<"c", "o", "v", "e", "r">>

\* const emptyPlace = { title: "", coords: [0, 0] }
emptyPlace == JObj(<<KeyTitle, KeyCoords>>, <<JStr(<<>>), JArr(<<JNum(0), JNum(0)>>)>>)

\* two places as places.json holds them
Hanoi ==
  JObj(<<KeySlug, KeyTitle, KeyCoords, KeyMedia>>,
       <<JStr(<<"h", "n">>), JStr(<<"H", QUOTE, BSLASH, "n">>),
         JArr(<<JNum(1058), JNum(210)>>),
         JObj(<<KeyCover>>, <<JStr(<<"/", "m">>)>>)>>)
Paris ==
  JObj(<<KeyTitle, KeyCoords, KeyTags>>,
       <<JStr(<<"P", NL, " ">>), JArr(<<JNum(23), JNum(-5)>>),
         JArr(<<JStr(<<>>), JNull>>)>>)

\* the documents places.json starts with
SeedDocs == { <<Paris, Hanoi>> }

\* what the editor's inputs produce
Titles == { <<BSLASH, "n", QUOTE>> }

\* obj[key], JNull standing for undefined
member(obj, key) ==
  IF obj.t = "obj" /\ \E i \in 1 .. Len(obj.keys) : obj.keys[i] = key
  THEN obj.items[CHOOSE i \in 1 .. Len(obj.keys) : obj.keys[i] = key]
  ELSE JNull

\* { ...place, ...patch } for a patch of one key
patch(place, key, val) == putMember(place, key, val)

\* JSON.stringify(places), the editor's memoized currentSnapshot
snapshotOf(list) == JSON_stringify(JArr(list), 0)

\* ---------------------------------------------------- route documents
KeyRoutes == <<"r", "o", "u", "t", "e", "s">>
KeyFeatures == <<"f", "e", "a", "t", "u", "r", "e", "s">>
KeyType == <<"t", "y", "p", "e">>
KeyName == <<"n", "a", "m", "e">>
FeatureCollection ==
  <<"F", "e", "a", "t", "u", "r", "e", "C", "o", "l", "l", "e", "c", "t", "i", "o", "n">>
Feature == <<"F", "e", "a", "t", "u", "r", "e">>

\* const emptyFeature = { type: "Feature", properties: { order: "", mode: "" },
\*                        geometry: { type: "LineString", coordinates: [] } }
emptyFeature ==
  JObj(<<KeyType, <<"p", "r", "o", "p", "e", "r", "t", "i", "e", "s">>,
         <<"g", "e", "o", "m", "e", "t", "r", "y">>>>,
       <<JStr(Feature),
         JObj(<<<<"o", "r", "d", "e", "r">>, <<"m", "o", "d", "e">>>>,
              <<JStr(<<>>), JStr(<<>>)>>),
         JObj(<<KeyType, <<"c", "o", "o", "r", "d", "i", "n", "a", "t", "e", "s">>>>,
              <<JStr(<<"L", "i", "n", "e", "S", "t", "r", "i", "n", "g">>), JArr(<<>>)>>)>>)

\* a route feature as routes.json holds it
Line == JObj(<<KeyType, <<"f", "i", "d">>>>, <<JStr(Feature), JNum(10)>>)

\* routes.json: a FeatureCollection with metadata around its features
SeedRoutes ==
  JObj(<<KeyType, KeyName, KeyFeatures, <<"c", "r", "s">>>>,
       <<JStr(FeatureCollection), JStr(<<"r">>), JArr(<<Line>>),
         JObj(<<KeyType>>, <<JStr(KeyName)>>)>>)

\* the texts places.json or routes.json may hold when the store is first used
SeedFiles ==
  IF store = "places" THEN { JSON_stringify(JArr(d), 2) \o <<NL>> : d \in SeedDocs }
  ELSE { JSON_stringify(SeedRoutes, 2) \o <<NL>> }

\* the key of the document in a request body and in a response
docKey == IF store = "places" THEN KeyPlaces ELSE KeyRoutes

\* { ...emptyPlace } / { ...emptyFeature }
emptyItem == IF store = "places" THEN emptyPlace ELSE emptyFeature

\* JSON.stringify({ places }) / JSON.stringify({ routes }), the body of a save
wireOf(list) == JSON_stringify(JObj(<<docKey>>, <<JArr(list)>>), 0)

\* a present value: the result of a step that did not fail
Just(val) == [ok |-> TRUE, val |-> val, rest |-> <<>>]

\* --------------------------------------- /api/places and /api/routes
\* GET: read the file, parse it, answer { places } / { routes } (500 when
\* that throws)
respond(doc) ==
  IF doc.ok
  THEN [ok |-> TRUE, wire |-> JSON_stringify(JObj(<<docKey>>, <<doc.val>>), 0)]
  ELSE [ok |-> FALSE, wire |-> <<>>]

GET == respond(JSON_parse(file))

\* !v for a JSON value
falsy(v) == v.t = "null" \/ (v.t = "num" /\ v.k = 0) \/ (v.t = "str" /\ v.s = <<>>)

\* a POST that would serialize the whole body
postPayloadWhole(body) == JSON_stringify(body, 2) \o <<NL>>
\* POST: `${JSON.stringify(body.places, null, 2)}\n`
postPayload(body) == JSON_stringify(member(body, KeyPlaces), 2) \o <<NL>>

\* a buildCollection that would drop the metadata of base
buildCollectionFresh(features, base) ==
  JObj(<<KeyType, KeyFeatures>>, <<JStr(FeatureCollection), features>>)
\* buildCollection(features, base); base.ok = FALSE is undefined
buildCollection(features, base) ==
  IF base.ok /\ ~falsy(base.val) /\ member(base.val, KeyType) = JStr(FeatureCollection)
  THEN putMember(base.val, KeyFeatures, features)
  ELSE JObj(<<KeyType, KeyFeatures>>, <<JStr(FeatureCollection), features>>)

\* a POST /api/routes that would store whatever body.routes is
collectionOfAny(incoming) ==
  IF incoming.t = "arr" THEN Just(buildCollection(incoming, JSON_parse(file)))
  ELSE Just(incoming)
\* POST /api/routes: the collection to store for body.routes, none for the
\* 400 answer
collectionOf(incoming) ==
  IF incoming.t = "arr" THEN Just(buildCollection(incoming, JSON_parse(file)))
  ELSE IF incoming.t = "obj" /\ member(incoming, KeyType) = JStr(FeatureCollection)
  THEN Just(incoming)
  ELSE Fail

\* `${JSON.stringify(collection, null, 2)}\n`, none without a collection
routesPayload(collection) ==
  IF collection.ok
  THEN [ok |-> TRUE, text |-> JSON_stringify(collection.val, 2) \o <<NL>>]
  ELSE [ok |-> FALSE, text |-> <<>>]

\* the text POST writes for a parsed body, none for the 400 answer
payloadOf(body) ==
  IF store = "places"
  THEN IF falsy(body) \/ member(body, KeyPlaces).t # "arr"
       THEN [ok |-> FALSE, text |-> <<>>]
       ELSE [ok |-> TRUE, text |-> postPayload(body)]
  ELSE routesPayload(collectionOf(IF falsy(body) THEN JNull ELSE member(body, KeyRoutes)))

\* the document of a response as a list
itemsOfResponse(data) ==
  IF store = "places"
  THEN IF member(data, KeyPlaces).t = "arr" THEN member(data, KeyPlaces).items ELSE <<>>
  ELSE IF member(member(data, KeyRoutes), KeyFeatures).t = "arr"
  THEN member(member(data, KeyRoutes), KeyFeatures).items
  ELSE <<>>

\* the array a body carries: body.places, body.routes or body.routes.features
itemsOf(body) ==
  IF member(body, docKey).t = "arr" THEN member(body, docKey).items
  ELSE IF member(member(body, docKey), KeyFeatures).t = "arr"
  THEN member(member(body, docKey), KeyFeatures).items
  ELSE <<>>

\* POST for the parsed body, payload being the text it is about to write
postBody(c, body, payload) ==
  IF ~payload.ok
  THEN /\ request' = [request EXCEPT ![c].phase = "answered",
                                     ![c].code = IF body.ok THEN 400 ELSE 500]
       /\ UNCHANGED <<file, stable, posted>>
  ELSE /\ file' = <<>>
       /\ request' = [o \in Clients |->
            IF o = c
            THEN [request[c] EXCEPT
                    !.phase = "opened", !.payload = payload.text,
                    !.clean = \A q \in Clients \ {c} : request[q].phase # "opened"]
            ELSE IF request[o].phase = "opened" THEN [request[o] EXCEPT !.clean = FALSE]
            ELSE request[o]]
       /\ posted' = [posted EXCEPT ![c].doc = itemsOf(body.val)]
       /\ stable' = [ok |-> FALSE, doc |-> <<>>]

\* request.json() of the body on the wire, and what POST is to write for it
postRequest(c, body) ==
  postBody(c, body, IF body.ok THEN payloadOf(body.val) ELSE [ok |-> FALSE, text |-> <<>>])

\* POST until fs.writeFile has opened the file: parse the body, reject what
\* is not acceptable, (routes) read the stored collection, serialize, open
\* the file with flag "w"
PostOpen(c) ==
  /\ request[c].phase = "sent"
  /\ postRequest(c, JSON_parse(request[c].wire))
  /\ UNCHANGED <<store, editor, uploads, lastPut, lastWrite, roundTrip, edits>>
  /\ UNCHANGED <<jvars, mvars, pvars, qvars>>

\* fs.writeFile writes its data at the start of the file it opened
PostWrite(c) ==
  /\ request[c].phase = "opened"
  /\ file' = request[c].payload \o Drop(file, Len(request[c].payload))
  /\ request' = [o \in Clients |->
       IF o = c THEN [request[c] EXCEPT !.phase = "answered", !.code = 200]
       ELSE IF request[o].phase = "opened" THEN [request[o] EXCEPT !.clean = FALSE]
       ELSE request[o]]
  /\ lastWrite' = c
  /\ stable' = [ok |-> request[c].clean,
                doc |-> IF request[c].clean THEN posted[c].doc ELSE <<>>]
  /\ UNCHANGED <<store, editor, uploads, lastPut, posted, roundTrip, edits>>
  /\ UNCHANGED <<jvars, mvars, pvars, qvars>>

\* ------------------------------------------- a client without the editor
\* the bodies client 0 posts: acceptable ones and ones that are not
RawDocs ==
  IF store = "places"
  THEN { JNull, JObj(<<>>, <<>>), JObj(<<KeyPlaces>>, <<JNull>>),
         JObj(<<KeyPlaces>>, <<JObj(<<KeyTitle>>, <<JArr(<<>>)>>)>>),
         JObj(<<KeyRoutes>>, <<JArr(<<>>)>>), JArr(<<Paris>>),
         JObj(<<KeyPlaces>>, <<JArr(<<>>)>>), JObj(<<KeyPlaces>>, <<JArr(<<Paris>>)>>) }
  ELSE { JNull, JObj(<<>>, <<>>), JObj(<<KeyRoutes>>, <<JNull>>),
         JObj(<<KeyRoutes>>, <<JStr(FeatureCollection)>>),
         JObj(<<KeyRoutes>>, <<Line>>),
         JObj(<<KeyRoutes>>, <<JObj(<<KeyFeatures>>, <<JArr(<<>>)>>)>>),
         JObj(<<KeyPlaces>>, <<JArr(<<>>)>>),
         JObj(<<KeyRoutes>>, <<JArr(<<>>)>>),
         JObj(<<KeyRoutes>>, <<JArr(<<emptyFeature, Line>>)>>),
         JObj(<<KeyRoutes>>, <<JObj(<<KeyFeatures, KeyType>>,
                                    <<JArr(<<Line>>), JStr(FeatureCollection)>>)>>) }

\* the same as texts, and a text that is not JSON
RawBodies == { JSON_stringify(body, 0) : body \in RawDocs } \cup { <<"{">> }

\* client 0 sends a POST
RawPost ==
  /\ request[0].phase = "none"
  /\ \E wire \in RawBodies :
       request' = [request EXCEPT ![0] = [NoRequest EXCEPT !.phase = "sent", !.wire = wire]]
  /\ UNCHANGED <<store, file, editor, uploads, lastPut, lastWrite, posted, stable,
                 roundTrip, edits>>
  /\ UNCHANGED <<jvars, mvars, pvars, qvars>>

\* client 0 has read the answer
RawDone ==
  /\ request[0].phase = "answered"
  /\ request' = [request EXCEPT ![0] = NoRequest]
  /\ UNCHANGED <<store, file, editor, uploads, lastPut, lastWrite, posted, stable,
                 roundTrip, edits>>
  /\ UNCHANGED <<jvars, mvars, pvars, qvars>>

\* ------------------------------------------------- PUT /api/places
\* the characters of [a-zA-Z0-9._-]
SafeChars ==
  { "a", "b", "c", "d", "e", "f", "g", "h", "i", "j", "k", "l", "m", "n", "o", "p",
    "q", "r", "s", "t", "u", "v", "w", "x", "y", "z", "A", "B", "C", "D", "E", "F",
    "G", "H", "I", "J", "K", "L", "M", "N", "O", "P", "Q", "R", "S", "T", "U", "V",
    "W", "X", "Y", "Z", ".", "_", "-" } \cup { Digits[i] : i \in 1 .. 10 }

\* name.replace(/[^a-zA-Z0-9._-]/g, "_")
RECURSIVE sanitizeFileName(_)
sanitizeFileName(name) ==
  IF name = <<>> THEN <<>>
  ELSE <<IF Head(name) \in SafeChars THEN Head(name) ELSE "_">>
         \o sanitizeFileName(Tail(name))

\* `${Date.now()}` at the time of the upload
now == <<"1", "7">>

\* the folder of an upload, under public/media
folderOf(type) ==
  IF type = "video" THEN "uploads/videos"
  ELSE IF type = "audio" THEN "uploads/audio"
  ELSE "uploads/images"

\* path.join(targetDir, safeName): "." and ".." are resolved, and the
\* result is then a directory, which has no file name
pathJoin(folder, safeName) ==
  IF safeName = <<".">> THEN [dir |-> folder, name |-> <<>>]
  ELSE IF safeName = <<".", ".">> THEN [dir |-> "uploads", name |-> <<>>]
  ELSE [dir |-> folder, name |-> safeName]

\* the file names and the type parameters of the uploads
FileNames ==
  { <<>>, <<"m", "y", " ", "p", ".", "p", "n", "g">>, <<".", ".", "/", "x">>,
    <<".", ".">>, <<"A", "-", "9", "_">> }
Types == { "", "image", "video", "audio", "pdf" }

\* PUT with a file: sanitize the name, make the folder, write the file (a
\* directory cannot be written: 500), answer { url }
putFile(type, name, safeName, filePath) ==
  /\ lastPut' = [status |-> IF filePath.name = <<>> THEN 500 ELSE 200,
                 type |-> type, name |-> name,
                 url |-> IF filePath.name = <<>> THEN NoPut.url
                         ELSE [folder |-> folderOf(type), name |-> safeName]]
  /\ uploads' = IF filePath.name = <<>> THEN uploads ELSE uploads \cup {filePath}

putNamed(type, name, safeName) ==
  putFile(type, name, safeName, pathJoin(folderOf(type), safeName))

PUT ==
  /\ store = "places"
  /\ Cardinality(uploads) < MaxUploads
  /\ request[0].phase = "none"
  /\ \E param \in Types, name \in FileNames :
       putNamed(IF param = "" THEN "image" ELSE param, name,
                sanitizeFileName(IF name = <<>> THEN now ELSE name))
  /\ UNCHANGED <<store, file, editor, request, lastWrite, posted, stable, roundTrip, edits>>
  /\ UNCHANGED <<jvars, mvars, pvars, qvars>>

\* ------------------------------------------------- the admin editor
\* the user opens the page again after a save or a failed load: a fresh
\* mount, loading
Reload(s) ==
  /\ editor[s].status \in {"saved", "error"}
  /\ request[s].phase = "none"
  /\ editor' = [editor EXCEPT ![s] = NewEditor]
  /\ UNCHANGED <<store, uploads, lastPut, file, request, lastWrite, posted, stable, roundTrip, edits>>
  /\ UNCHANGED <<jvars, mvars, pvars, qvars>>

\* Array.isArray(data.places) ? data.places : []
\* Array.isArray(data.routes?.features) ? data.routes.features : []
listOf(data) == IF data.ok THEN itemsOfResponse(data.val) ELSE <<>>

\* the then-chain for a response that is ok and carries list
showList(s, list, snapshot) ==
  editor' = [editor EXCEPT ![s] =
    [@ EXCEPT !.places = list, !.currentSnapshot = snapshot,
              !.savedSnapshot = snapshot,
              !.selectedIndex = IF Len(list) > 0 THEN 0 ELSE -1,
              !.status = "idle", !.fetching = FALSE]]

loadList(s, ok, list) ==
  /\ IF ok THEN showList(s, list, snapshotOf(list))
     ELSE editor' = [editor EXCEPT ![s] =
            [@ EXCEPT !.error = "Failed to load places", !.status = "error",
                      !.fetching = FALSE]]
  /\ roundTrip' = IF ~stable.ok THEN "none"
                  ELSE IF ok /\ list = stable.doc THEN "same"
                  ELSE "differs"

loadResponse(s, res) == loadList(s, res.ok, listOf(JSON_parse(res.wire)))

\* the mount effect's fetch("/api/places") and its then-chain
LoadDone(s) ==
  /\ editor[s].fetching
  /\ loadResponse(s, GET)
  /\ UNCHANGED <<store, uploads, lastPut, file, request, lastWrite, posted, stable, edits>>
  /\ UNCHANGED <<jvars, mvars, pvars, qvars>>

\* one editing gesture that sets places to next; the user edits the list
\* once it is shown
Edit(s, next, sel) ==
  /\ edits < MaxEdits
  /\ ~editor[s].fetching
  /\ editor' = [editor EXCEPT ![s].places = next,
                               ![s].currentSnapshot = snapshotOf(next),
                               ![s].selectedIndex = sel,
                               ![s].edited = TRUE]
  /\ edits' = edits + 1
  /\ UNCHANGED <<store, uploads, lastPut, file, request, lastWrite, posted, stable, roundTrip>>
  /\ UNCHANGED <<jvars, mvars, pvars, qvars>>

handleAdd(s) ==
  /\ Len(editor[s].places) < MaxDocLen
  /\ Edit(s, Append(editor[s].places, emptyItem), Len(editor[s].places))

\* handleRemove, the confirm dialog answered with yes
handleRemove(s) ==
  LET e == editor[s]
      next == RemoveAt(e.places, e.selectedIndex + 1)
      nextIndex == Min2(e.selectedIndex, Len(next) - 1)
  IN /\ e.selectedIndex >= 0
     /\ Edit(s, next, IF nextIndex >= 0 THEN nextIndex ELSE -1)

\* updatePlace({ title })
updatePlace(s) ==
  \E title \in Titles :
    LET e == editor[s]
        i == e.selectedIndex + 1
    IN /\ store = "places"
       /\ e.selectedIndex >= 0
       /\ Edit(s, [e.places EXCEPT ![i] = patch(@, KeyTitle, JStr(title))],
               e.selectedIndex)

\* a dirty check that would never find the document unchanged
noChangesNever(e) == FALSE
\* currentSnapshot === savedSnapshot
noChanges(e) == e.currentSnapshot = e.savedSnapshot

\* handleSave up to its fetch; the button is disabled while saving, and the
\* user waits for the answer before pressing it again
handleSave(s) ==
  LET e == editor[s]
      currentSnapshot == e.currentSnapshot
  IN /\ e.status # "saving"
     /\ request[s].phase = "none"
     /\ IF noChanges(e)
        THEN /\ e.notice # "noop"
             /\ editor' = [editor EXCEPT ![s].notice = "noop"]
             /\ UNCHANGED request
        ELSE /\ editor' = [editor EXCEPT ![s].status = "saving", ![s].error = "none"]
             /\ request' = [request EXCEPT ![s] =
                  [NoRequest EXCEPT !.phase = "sent", !.wire = wireOf(e.places),
                                    !.snapshot = currentSnapshot,
                                    !.loaded = ~e.fetching /\ e.error = "none"]]
     /\ UNCHANGED <<store, uploads, lastPut, file, lastWrite, posted, stable, roundTrip, edits>>
     /\ UNCHANGED <<jvars, mvars, pvars, qvars>>

\* handleSave after its fetch has answered
SaveDone(s) ==
  /\ request[s].phase = "answered"
  /\ editor' = [editor EXCEPT ![s] =
       IF request[s].code = 200
       THEN [@ EXCEPT !.status = "saved", !.savedSnapshot = request[s].snapshot,
                      !.notice = "saved"]
       ELSE [@ EXCEPT !.error = "Save failed", !.status = "error"]]
  /\ posted' = [posted EXCEPT ![s].done = @ \/ request[s].code = 200,
                               ![s].loaded = request[s].loaded]
  /\ request' = [request EXCEPT ![s] = NoRequest]
  /\ UNCHANGED <<store, uploads, lastPut, file, lastWrite, stable, roundTrip, edits>>
  /\ UNCHANGED <<jvars, mvars, pvars, qvars>>

\* ------------------------------------------------ store specification
\* the journey page is not in use: an empty place list
JIdle == JInit /\ variant = "rich" /\ n = 0

\* the sessions in which the editor is open: two for the places, one for
\* the routes
ActiveSessions == IF store = "places" THEN Sessions ELSE {1}

StoreInit ==
  /\ JIdle /\ MapIdle /\ PageIdle /\ QuizIdle
  /\ store \in {"places", "routes"}
  /\ file \in SeedFiles
  /\ editor = [s \in Sessions |-> NewEditor]
  /\ request = [c \in Clients |-> NoRequest]
  /\ uploads = {}
  /\ lastPut = NoPut
  /\ lastWrite = 0
  /\ posted = [c \in Clients |-> [done |-> FALSE, doc |-> <<>>, loaded |-> FALSE]]
  /\ stable = [ok |-> FALSE, doc |-> <<>>]
  /\ roundTrip = "none"
  /\ edits = 0

\* the load of a session in which the editor is open
Load(s) == s \in ActiveSessions /\ LoadDone(s)

\* the users wait for the list before they save
Save(s) == ~editor[s].fetching /\ handleSave(s)

StoreNext ==
  \E s \in Sessions :
    \/ Reload(s)
    \/ Load(s)
    \/ handleAdd(s)
    \/ handleRemove(s)
    \/ updatePlace(s)
    \/ Save(s)
    \/ PostOpen(s)
    \/ PostWrite(s)
    \/ SaveDone(s)

SpecStore == StoreInit /\ [][StoreNext]_vars

\* one editor session whose user presses Save at any time, the file on disk
\* possibly damaged
EditorInit ==
  /\ JIdle /\ MapIdle /\ PageIdle /\ QuizIdle
  /\ store \in {"places", "routes"}
  /\ file \in SeedFiles \cup { <<"[", NL>> }
  /\ editor = [s \in Sessions |-> NewEditor]
  /\ request = [c \in Clients |-> NoRequest]
  /\ uploads = {}
  /\ lastPut = NoPut
  /\ lastWrite = 0
  /\ posted = [c \in Clients |-> [done |-> FALSE, doc |-> <<>>, loaded |-> FALSE]]
  /\ stable = [ok |-> FALSE, doc |-> <<>>]
  /\ roundTrip = "none"
  /\ edits = 0

EditorNext ==
  \/ Reload(1)
  \/ LoadDone(1)
  \/ handleAdd(1)
  \/ handleRemove(1)
  \/ updatePlace(1)
  \/ handleSave(1)
  \/ PostOpen(1)
  \/ PostWrite(1)
  \/ SaveDone(1)

SpecEditor == EditorInit /\ [][EditorNext]_vars

\* the API alone: client 0 posts documents and uploads files while no
\* editor is open
ApiNext == RawPost \/ PostOpen(0) \/ PostWrite(0) \/ RawDone \/ PUT

SpecApi == StoreInit /\ [][ApiNext]_vars

\* ======================================================== store claims

\* C9: a POST of {places: A} that answers ok and that no other POST
\* overlaps, followed by a GET with no other write in between, returns
\* {places: A'} with A' = A: the same elements in the same order with the
\* same field values.
C9_RoundTrip == roundTrip # "differs"

C9_Witness ==
  /\ roundTrip = "same" /\ stable.ok
  /\ \E i \in 1 .. Len(stable.doc) :
       member(stable.doc[i], KeyTitle) = JStr(<<BSLASH, "n", QUOTE>>)
  /\ \E i \in 1 .. Len(stable.doc) : stable.doc[i] = Hanoi

\* C10: once both sessions have saved and nothing is in flight, places.json
\* holds exactly the array of the POST that wrote last, and no session got
\* a save error.
C10_LastWriterWins ==
  ((\A s \in Sessions : posted[s].done /\ posted[s].loaded /\ request[s].phase = "none")
     /\ lastWrite \in Sessions)
    => (/\ file = JSON_stringify(JArr(posted[lastWrite].doc), 2) \o <<NL>>
        /\ \A s \in Sessions : editor[s].error # "Save failed")

\* C11: handleSave sends a POST only when the serialization of the array in
\* memory differs from the recorded snapshot, and the POST carries that
\* array; when they are equal it changes nothing but the notice; after a
\* successful save the recorded snapshot is the serialization of the array
\* that was sent.
C11_DirtyCheck ==
  [][\A s \in Sessions :
       /\ (request[s].phase = "none" /\ request'[s].phase = "sent")
            => /\ snapshotOf(editor[s].places) # editor[s].savedSnapshot
               /\ itemsOf(JSON_parse(request'[s].wire).val) = editor[s].places
       /\ (editor[s].notice # "noop" /\ editor'[s].notice = "noop")
            => /\ snapshotOf(editor[s].places) = editor[s].savedSnapshot
               /\ editor' = [editor EXCEPT ![s].notice = "noop"]
               /\ UNCHANGED <<file, request, posted>>
       /\ (request[s].phase = "answered" /\ request[s].code = 200
             /\ request'[s].phase = "none")
            => editor'[s].savedSnapshot = snapshotOf(posted[s].doc)
    ]_vars

C11_Witness ==
  \E s \in Sessions :
    /\ posted[s].done /\ editor[s].status = "saved"
    /\ editor[s].notice = "noop" /\ Len(editor[s].places) > 0

\* C12: a POST of {routes: F}, F an array, to /api/routes while routes.json
\* holds a FeatureCollection stores a collection whose features are exactly
\* F and whose other top-level fields are those of the stored collection,
\* unchanged and with none added.
C12_MetadataKept ==
  [][\A c \in Clients :
       /\ (/\ store = "routes"
           /\ request[c].phase = "sent" /\ request'[c].phase # "sent"
           /\ member(JSON_parse(request[c].wire).val, KeyRoutes).t = "arr"
           /\ member(JSON_parse(file).val, KeyType) = JStr(FeatureCollection))
            => /\ request'[c].phase = "opened"
               /\ member(JSON_parse(request'[c].payload).val, KeyFeatures)
                    = member(JSON_parse(request[c].wire).val, KeyRoutes)
               /\ \A i \in 1 .. Len(JSON_parse(file).val.keys) :
                    JSON_parse(file).val.keys[i] # KeyFeatures
                      => member(JSON_parse(request'[c].payload).val,
                                JSON_parse(file).val.keys[i])
                           = JSON_parse(file).val.items[i]
               /\ \A i \in 1 .. Len(JSON_parse(request'[c].payload).val.keys) :
                    \/ JSON_parse(request'[c].payload).val.keys[i] = KeyFeatures
                    \/ \E j \in 1 .. Len(JSON_parse(file).val.keys) :
                         JSON_parse(file).val.keys[j]
                           = JSON_parse(request'[c].payload).val.keys[i]
       /\ (request[c].phase = "opened" /\ request'[c].phase = "answered"
             /\ request[c].clean)
            => file' = request[c].payload
    ]_vars

C12_Witness ==
  /\ store = "routes"
  /\ request[0].phase = "answered" /\ request[0].code = 200
  /\ member(JSON_parse(file).val, KeyName) = JStr(<<"r">>)
  /\ member(JSON_parse(file).val, KeyFeatures) = JArr(<<emptyFeature, Line>>)

C14_UploadName ==
  (lastPut.status # 0 /\ lastPut.name # <<>>)
    => /\ lastPut.status = 200
       /\ lastPut.url.folder = (CASE lastPut.type = "video" -> "uploads/videos"
                                  [] lastPut.type = "audio" -> "uploads/audio"
                                  [] OTHER -> "uploads/images")
       /\ Len(lastPut.url.name) = Len(lastPut.name)
       /\ \A i \in 1 .. Len(lastPut.name) :
            lastPut.url.name[i] = IF lastPut.name[i] \in SafeChars
                                  THEN lastPut.name[i] ELSE "_"
       /\ \A i \in 1 .. Len(lastPut.url.name) : lastPut.url.name[i] # "/"
       /\ [dir |-> lastPut.url.folder, name |-> lastPut.url.name] \in uploads

\* C20: a Save pressed before the user has made any edit, the load still
\* in flight or failed included, sends no POST.
C20_NoBlindSave ==
  [][\A s \in Sessions :
       (request[s].phase = "none" /\ request'[s].phase = "sent") => editor[s].edited
    ]_vars

\* ============================================================= map data
\* Part 3: what MapView derives from its inputs before any journey step:
\* the order of the places, the markers and route nodes drawn for them,
\* and the zoom-out level of a transition.  Texts are sequences of
\* characters; an absent text and the empty text are both <<>> (the code
\* only tests them for truthiness).

\* ---- String.prototype.localeCompare, on digits and capital letters
\* (where collation order and code-unit order agree); DStroke stands for
\* the capital D with stroke that starts the fallback title
DStroke == "D-"
rank(c) ==
  CASE c = "1" -> 1 [] c = "2" -> 2 [] c = "9" -> 3
    [] c = "A" -> 4 [] c = "B" -> 5 [] c = DStroke -> 6
    [] OTHER -> 7

RECURSIVE localeCompare(_, _)
localeCompare(a, b) ==
  IF a = <<>> THEN (IF b = <<>> THEN 0 ELSE -1)
  ELSE IF b = <<>> THEN 1
  ELSE IF rank(Head(a)) < rank(Head(b)) THEN -1
  ELSE IF rank(Head(a)) > rank(Head(b)) THEN 1
  ELSE localeCompare(Tail(a), Tail(b))

\* a || fallback
orElse(text, fallback) == IF text = <<>> THEN fallback ELSE text

\* the fallback of the comparator: the first letter of the placeholder
\* title with the route-aware sort, the empty text without
fallbackText == IF withOrder THEN <<DStroke>> ELSE <<>>

\* ---- routeOrderMap
\* props.order absent
NoOrder == -1

\* toNumberOrder(props.order) ?? idx + 1, for the feature at position i
\* (orders in the model are numbers already)
orderAt(i) == IF routesJson[i].order = NoOrder THEN i ELSE routesJson[i].order

\* routeOrderMap.get(slug): the least order of a feature that names the
\* slug, features of order 0 left out; NoOrder for undefined
routeOrderMapGet(slug) ==
  IF slug = <<>> \/ ~withOrder THEN NoOrder
  ELSE IF \E i \in 1 .. Len(routesJson) :
            /\ orderAt(i) # 0
            /\ slug \in {routesJson[i].fromSlug, routesJson[i].toSlug}
       THEN CHOOSE o \in 0 .. (Len(routesJson) + 2) :
              /\ \E i \in 1 .. Len(routesJson) :
                   /\ orderAt(i) = o /\ o # 0
                   /\ slug \in {routesJson[i].fromSlug, routesJson[i].toSlug}
              /\ \A i \in 1 .. Len(routesJson) :
                   (orderAt(i) # 0
                      /\ slug \in {routesJson[i].fromSlug, routesJson[i].toSlug})
                     => o <= orderAt(i)
       ELSE NoOrder

\* ---- the comparator of sortedPlaces
\* the tail of the comparator: dateStart, then title
byDate(a, b) ==
  IF a.dateStart # <<>> /\ b.dateStart # <<>>
  THEN IF localeCompare(a.dateStart, b.dateStart) # 0
       THEN localeCompare(a.dateStart, b.dateStart)
       ELSE localeCompare(orElse(a.title, fallbackText), orElse(b.title, fallbackText))
  ELSE IF a.dateStart # <<>> THEN -1
  ELSE IF b.dateStart # <<>> THEN 1
  ELSE localeCompare(orElse(a.title, fallbackText), orElse(b.title, fallbackText))

\* the head of the comparator: the route orders aOrd and bOrd
byOrder(aOrd, bOrd, a, b) ==
  IF aOrd # NoOrder /\ bOrd # NoOrder /\ aOrd # bOrd THEN aOrd - bOrd
  ELSE IF aOrd # NoOrder /\ bOrd = NoOrder THEN -1
  ELSE IF aOrd = NoOrder /\ bOrd # NoOrder THEN 1
  ELSE byDate(a, b)

comparePlaces(a, b) ==
  byOrder(routeOrderMapGet(a.slug), routeOrderMapGet(b.slug), a, b)

\* Array.prototype.sort is stable: p goes behind every element that does
\* not compare greater
RECURSIVE insertPlace(_, _)
insertPlace(p, list) ==
  IF list = <<>> THEN <<p>>
  ELSE IF comparePlaces(Head(list), p) <= 0
       THEN <<Head(list)>> \o insertPlace(p, Tail(list))
       ELSE <<p>> \o list

RECURSIVE sortPlaces(_, _)
sortPlaces(list, k) ==
  IF k = 0 THEN <<>> ELSE insertPlace(list[k], sortPlaces(list, k - 1))

\* ---- coordinates
\* place.coords: undefined, an array of numbers, or a string
noCoords == [t |-> "undefined", items |-> <<>>]
coordsArray(items) == [t |-> "arr", items |-> items]
coordsString(items) == [t |-> "str", items |-> items]

\* !place.coords
falsyCoords(c) == c.t = "undefined" \/ (c.t = "str" /\ c.items = <<>>)

\* the test of buildPointCollection: a 2-element array
isPair(c) == c.t = "arr" /\ Len(c.items) = 2

\* the test of the markers effect
markerSkips(c) == falsyCoords(c) \/ Len(c.items) # 2

\* LngLat.convert accepts arrays of 2 or 3 elements; any other value that
\* is not an object throws
setLngLatThrows(c) == ~(c.t = "arr" /\ Len(c.items) \in {2, 3})

\* buildPointCollection(places).features
RECURSIVE buildPointCollection(_)
buildPointCollection(list) ==
  IF list = <<>> THEN <<>>
  ELSE IF isPair(Head(list).coords)
       THEN <<[slug |-> Head(list).slug, title |-> Head(list).title,
               coordinates |-> Head(list).coords.items]>>
              \o buildPointCollection(Tail(list))
       ELSE buildPointCollection(Tail(list))

\* the first place of the list, from position i on, whose marker throws;
\* Len + 1 when there is none
RECURSIVE firstThrow(_, _)
firstThrow(list, i) ==
  IF i > Len(list) THEN i
  ELSE IF ~markerSkips(list[i].coords) /\ setLngLatThrows(list[i].coords) THEN i
  ELSE firstThrow(list, i + 1)

\* ---- inputs
place(slug, title, dateStart, coords) ==
  [slug |-> slug, title |-> title, dateStart |-> dateStart, coords |-> coords]

Pair == coordsArray(<<105, 21>>)

\* places that differ in what the comparator reads
DatedPlaces ==
  { place(<<"a">>, <<"B">>, <<"1", "9">>, Pair),
    place(<<"b">>, <<"A">>, <<"1", "9">>, Pair),
    place(<<"c">>, <<"A">>, <<"1", "9", "1">>, Pair),
    place(<<"d">>, <<"A">>, <<"2">>, Pair),
    place(<<>>, <<>>, <<>>, Pair) }

\* places that differ in their coords
CoordPlaces ==
  { place(<<"m">>, <<"A">>, <<"1", "9">>, noCoords),
    place(<<"n">>, <<"A">>, <<"1", "9">>, coordsArray(<<>>)),
    place(<<"o">>, <<"A">>, <<"1", "9">>, coordsArray(<<105>>)),
    place(<<"p">>, <<"A">>, <<"1", "9">>, Pair),
    place(<<"q">>, <<"A">>, <<"1", "9">>, coordsArray(<<105, 21, 0>>)),
    place(<<"r">>, <<"A">>, <<"1", "9">>, coordsString(<<"a", "b">>)) }

ListsOf(pool) == UNION { [1 .. k -> pool] : k \in 0 .. MaxList }

PlaceLists == ListsOf(DatedPlaces) \cup ListsOf(CoordPlaces)

route(fromSlug, toSlug, order) ==
  [fromSlug |-> fromSlug, toSlug |-> toSlug, order |-> order]

\* routes.json: no feature; hops without an order; one numbered hop; a hop
\* of order 0; hops numbered against their position
RouteLists ==
  { <<>>,
    <<route(<<"a">>, <<"b">>, NoOrder), route(<<"b">>, <<"c">>, NoOrder)>>,
    <<route(<<"d">>, <<"a">>, 1)>>,
    <<route(<<"c">>, <<"d">>, 0)>>,
    <<route(<<"b">>, <<"a">>, 2), route(<<"c">>, <<"b">>, 1)>> }

\* the zoom a transition starts from, and the distances it may span
BaseZooms == {0, 18, 22, 26, 30, 36, 42, 49, 56, 60, 62, 100, 220}
Distances == {0, 50, 51, 200, 201, 800, 801, 2000, 2001, 4000, 4001, 20000}

\* ---- the component
\* sortedPlaces, computed on mount
Sort ==
  /\ stage = "mounted"
  /\ sortedPlaces' = sortPlaces(places, Len(places))
  /\ stage' = "sorted"
  /\ UNCHANGED <<places, routesJson, withOrder, markers, routeNodes, thrown,
                 zoomInput, zoomLevels, step>>
  /\ UNCHANGED <<jvars, svars, pvars, qvars>>

\* the markers effect: a marker for every place it does not skip, until
\* setLngLat throws; the route nodes are the load handler's
MarkersEffect ==
  /\ stage = "sorted"
  /\ markers' = { i \in 1 .. (firstThrow(sortedPlaces, 1) - 1) :
                    ~markerSkips(sortedPlaces[i].coords) }
  /\ thrown' = (firstThrow(sortedPlaces, 1) <= Len(sortedPlaces))
  /\ routeNodes' = buildPointCollection(sortedPlaces)
  /\ stage' = "rendered"
  /\ UNCHANGED <<places, routesJson, withOrder, sortedPlaces, zoomInput, zoomLevels,
                 step>>
  /\ UNCHANGED <<jvars, svars, pvars, qvars>>

\* zoomOut of applyStep for the two distances of zoomInput
ZoomOut ==
  /\ stage = "zoom" /\ zoomLevels = <<>>
  /\ zoomLevels' =
       IF zoomInput.variant = "rich"
       THEN <<zoomOutRich(zoomInput.near, zoomInput.baseZoom),
              zoomOutRich(zoomInput.far, zoomInput.baseZoom)>>
       ELSE <<zoomOutSimple(zoomInput.baseZoom), zoomOutSimple(zoomInput.baseZoom)>>
  /\ UNCHANGED <<places, routesJson, withOrder, sortedPlaces, markers, routeNodes,
                 thrown, stage, zoomInput, step>>
  /\ UNCHANGED <<jvars, svars, pvars, qvars>>

\* ---- a journey step over the rendered places
\* a[0], a[1] are numbers
numeric(c) == c.t = "arr" /\ Len(c.items) >= 2

\* isSameCoord(a, b) of two values that can be indexed; a missing number
\* makes the difference NaN and the comparison false
sameCenter(a, b) ==
  /\ numeric(a) /\ numeric(b)
  /\ a.items[1] = b.items[1] /\ a.items[2] = b.items[2]

\* fromCenter: the coords of the place left when truthy, else map.getCenter()
fromCenter(list, prevIndex) ==
  IF falsyCoords(list[prevIndex].coords) THEN Pair ELSE list[prevIndex].coords

\* setStep(nextIndex) with animate, as far as the camera: setStepIndex and
\* the clearing of the timers come first; isSameCoord indexes targetCenter
\* (a TypeError when it is undefined); showPopup and easeTo hand their
\* centre to LngLat.convert; the move timer keeps the midpoint, NaN when
\* the target lacks a number
stepOnto(s, list, nextIndex) ==
  [index |-> nextIndex, steps |-> s.steps + 1,
   threw |->
     IF list[nextIndex].coords.t = "undefined" THEN "isSameCoord"
     ELSE IF sameCenter(fromCenter(list, s.index), list[nextIndex].coords)
          THEN (IF setLngLatThrows(list[nextIndex].coords) THEN "showPopup" ELSE "none")
     ELSE IF setLngLatThrows(fromCenter(list, s.index)) THEN "easeTo"
     ELSE "none",
   moveTimeout |->
     IF \/ list[nextIndex].coords.t = "undefined"
        \/ sameCenter(fromCenter(list, s.index), list[nextIndex].coords)
        \/ setLngLatThrows(fromCenter(list, s.index))
     THEN "none"
     ELSE IF numeric(list[nextIndex].coords) THEN "mid" ELSE "NaN"]

\* a click on another place of the list once the markers are drawn
StepOnto ==
  /\ stage = "rendered" /\ ~thrown /\ step.steps < MaxSteps
  /\ \E i \in 1 .. MaxList :
       /\ i <= Len(sortedPlaces) /\ i # step.index
       /\ step' = stepOnto(step, sortedPlaces, i)
  /\ UNCHANGED <<places, routesJson, withOrder, sortedPlaces, markers, routeNodes,
                 thrown, stage, zoomInput, zoomLevels>>
  /\ UNCHANGED <<jvars, svars, pvars, qvars>>

\* the move timer fires: easeTo the midpoint
MoveTimer ==
  /\ step.moveTimeout # "none"
  /\ step' = [step EXCEPT !.moveTimeout = "none",
                          !.threw = IF step.moveTimeout = "NaN" THEN "timer" ELSE "none"]
  /\ UNCHANGED <<places, routesJson, withOrder, sortedPlaces, markers, routeNodes,
                 thrown, stage, zoomInput, zoomLevels>>
  /\ UNCHANGED <<jvars, svars, pvars, qvars>>

MapInit ==
  /\ JIdle /\ StoreIdle /\ PageIdle /\ QuizIdle
  /\ sortedPlaces = <<>> /\ markers = {} /\ routeNodes = <<>> /\ thrown = FALSE
  /\ zoomLevels = <<>> /\ step = NoStep
  /\ \/ /\ stage = "mounted"
        /\ places \in PlaceLists
        /\ routesJson \in RouteLists
        /\ withOrder \in BOOLEAN
        /\ zoomInput = [variant |-> "rich", baseZoom |-> loadZoom, near |-> 0, far |-> 0]
     \/ /\ stage = "zoom"
        /\ places = <<>> /\ routesJson = <<>> /\ withOrder = TRUE
        /\ zoomInput \in { z \in [variant : {"rich", "simple"}, baseZoom : BaseZooms,
                                  near : Distances, far : Distances] :
                             z.near <= z.far }

MapNext == Sort \/ MarkersEffect \/ ZoomOut \/ StepOnto \/ MoveTimer

SpecMap == MapInit /\ [][MapNext]_vars

\* ===================================================== map data claims

\* both places have a dateStart and a title
plainPair(a, b) ==
  /\ a.dateStart # <<>> /\ b.dateStart # <<>>
  /\ a.title # <<>> /\ b.title # <<>>

\* C15: sortedPlaces is ordered by dateStart, and places of equal dateStart
\* by title, whatever the place list and the route document.
C15_SortedByDate ==
  stage # "mounted"
    => \A i, j \in 1 .. Len(sortedPlaces) :
         (i < j /\ plainPair(sortedPlaces[i], sortedPlaces[j]))
           => \/ localeCompare(sortedPlaces[i].dateStart, sortedPlaces[j].dateStart) < 0
              \/ /\ sortedPlaces[i].dateStart = sortedPlaces[j].dateStart
                 /\ localeCompare(sortedPlaces[i].title, sortedPlaces[j].title) <= 0

\* C16: a place whose coords is missing or is not a 2-element array gets no
\* marker and no route node and raises no error, and every place with a
\* 2-element array gets both.
C16_MalformedSkipped ==
  stage = "rendered"
    => /\ ~thrown
       /\ \A i \in 1 .. Len(sortedPlaces) :
            /\ i \in markers <=> isPair(sortedPlaces[i].coords)
            /\ isPair(sortedPlaces[i].coords)
                 <=> \E k \in 1 .. Len(routeNodes) :
                       /\ routeNodes[k].slug = sortedPlaces[i].slug
                       /\ routeNodes[k].coordinates = sortedPlaces[i].coords.items

\* the number of thresholds a distance exceeds
band(distanceKm) == Cardinality({ t \in {50, 200, 800, 2000, 4000} : distanceKm > t })

\* C17: for one current zoom, the zoom-out level of the farther of two
\* transitions is never above that of the nearer, the level changes only
\* across one of the thresholds 50 / 200 / 800 / 2000 / 4000 km, and it is
\* never below 2.2.
C17_ZoomOutMonotone ==
  zoomLevels # <<>>
    => /\ zoomLevels[2] <= zoomLevels[1]
       /\ zoomLevels[1] >= 22 /\ zoomLevels[2] >= 22
       /\ band(zoomInput.near) = band(zoomInput.far) => zoomLevels[1] = zoomLevels[2]

C17_Witness ==
  /\ zoomLevels # <<>> /\ zoomInput.variant = "rich"
  /\ zoomInput.near = 50 /\ zoomInput.far = 51
  /\ zoomLevels[2] < zoomLevels[1]

\* C26: no step of the journey is fatal: a setStep onto a place whose
\* coords is missing or is not a pair of numbers raises no exception, in
\* the call or in the camera timer it leaves, and neither does a later
\* setStep onto a place with a pair of numbers.
C26_NoFatalStep ==
  step.threw = "none"

\* ================================================================= page
\* Part 5: one admin page as its user works on it.  A place (or a route
\* feature) is a row with an identity, the images of its media (label and
\* url) and its audio url; a url is the number of the upload that returned
\* it, 0 for the empty text; -1 stands for undefined.

\* ---- rows
item(label, url) == [label |-> label, url |-> url]
\* { label: "", url: "" }
emptyMedia == item(0, 0)
\* an array position never assigned
HoleItem == item(-1, -1)
HoleRow == [id |-> -1, images |-> <<>>, audio |-> 0]

\* { ...emptyPlace } / { ...emptyFeature }, the k-th object the page made
emptyRow(k) == [id |-> 100 + k, images |-> <<>>, audio |-> 0]

\* what the server holds: up to MaxRows places with one image each, or as
\* many route features
seedRow(i) ==
  [id |-> i, images |-> IF pageKind = "places" THEN <<emptyMedia>> ELSE <<>>, audio |-> 0]
PageSeeds == { [i \in 1 .. k |-> seedRow(i)] : k \in 0 .. MaxRows }

\* an array assigned at position len - 1 or beyond: the positions between
\* are holes
padTo(list, len, hole) ==
  [i \in 1 .. Max2(len, Len(list)) |-> IF i <= Len(list) THEN list[i] ELSE hole]

\* ---- the updaters, for the selectedIndex sel of the render that made them
\* updateMediaList("images", index, { url }): list[index] = {...list[index], url}
updateMediaList(list, sel, index, url) ==
  [list EXCEPT ![sel + 1].images =
     [padTo(@, index + 1, HoleItem) EXCEPT ![index + 1].url = url]]

\* updateMediaList reads next[selectedIndex].media: a TypeError when the
\* array has no such position
updateMediaListThrows(list, sel) == sel >= Len(list)

\* updatePlace({ media: { ...selectedPlace.media, audio: url } }) with the
\* media of the render that started the upload
updatePlaceAudio(list, sel, images, url) ==
  [padTo(list, sel + 1, HoleRow) EXCEPT ![sel + 1] =
     [@ EXCEPT !.images = images, !.audio = url]]

\* a removal that would leave the selection where it was
removeSelectedKeep(list, sel) ==
  [rows |-> RemoveAt(list, sel + 1), selectedIndex |-> sel]
\* the updater of handleRemove
removeSelected(list, sel) ==
  [rows |-> RemoveAt(list, sel + 1),
   selectedIndex |-> IF Min2(sel, Len(list) - 2) >= 0
                     THEN Min2(sel, Len(list) - 2) ELSE -1]

\* ---- the page
Gesture == ~crashed /\ gestures < MaxGestures

\* the then-chain of the mount effect, for a response that is ok and one
\* that is not
PageLoadDone ==
  /\ fetching /\ ~crashed
  /\ \/ \E list \in PageSeeds :
          /\ rows' = list /\ savedSnapshot' = list
          /\ selectedIndex' = IF Len(list) > 0 THEN 0 ELSE -1
          /\ status' = "idle"
     \/ /\ status' = "error"
        /\ UNCHANGED <<rows, savedSnapshot, selectedIndex>>
  /\ fetching' = FALSE
  /\ UNCHANGED <<pageKind, inflight, resetTimers, crashed, lastUpload, sent,
                 uploaded, gestures>>
  /\ UNCHANGED <<jvars, svars, mvars, qvars>>

\* a click on a row of the list
PageSelect ==
  /\ Gesture
  /\ \E idx \in 0 .. MaxRows :
       /\ idx < Len(rows) /\ idx # selectedIndex
       /\ selectedIndex' = idx
  /\ gestures' = gestures + 1
  /\ UNCHANGED <<pageKind, rows, status, savedSnapshot, fetching, inflight,
                 resetTimers, crashed, lastUpload, sent, uploaded>>
  /\ UNCHANGED <<jvars, svars, mvars, qvars>>

PageAdd ==
  /\ Gesture /\ Len(rows) < MaxRows
  /\ rows' = Append(rows, emptyRow(gestures))
  /\ selectedIndex' = Len(rows)
  /\ gestures' = gestures + 1
  /\ UNCHANGED <<pageKind, status, savedSnapshot, fetching, inflight,
                 resetTimers, crashed, lastUpload, sent, uploaded>>
  /\ UNCHANGED <<jvars, svars, mvars, qvars>>

\* handleRemove, the confirm dialog answered with yes
PageRemove ==
  /\ Gesture /\ selectedIndex >= 0
  /\ rows' = removeSelected(rows, selectedIndex).rows
  /\ selectedIndex' = removeSelected(rows, selectedIndex).selectedIndex
  /\ gestures' = gestures + 1
  /\ UNCHANGED <<pageKind, status, savedSnapshot, fetching, inflight,
                 resetTimers, crashed, lastUpload, sent, uploaded>>
  /\ UNCHANGED <<jvars, svars, mvars, qvars>>

\* the media form of the selected place: addMediaItem, removeMediaItem and a
\* label typed into an item
MediaEdit ==
  /\ Gesture /\ pageKind = "places"
  /\ selectedIndex >= 0 /\ selectedIndex < Len(rows)
  /\ \/ /\ Len(rows[selectedIndex + 1].images) < MaxMedia
        /\ rows' = [rows EXCEPT ![selectedIndex + 1].images = Append(@, emptyMedia)]
     \/ \E index \in 0 .. (MaxMedia - 1) :
          /\ index < Len(rows[selectedIndex + 1].images)
          /\ \/ rows' = [rows EXCEPT ![selectedIndex + 1].images = RemoveAt(@, index + 1)]
             \/ /\ rows[selectedIndex + 1].images[index + 1].label = 0
                /\ rows' = [rows EXCEPT ![selectedIndex + 1].images[index + 1].label = 1]
  /\ gestures' = gestures + 1
  /\ UNCHANGED <<pageKind, selectedIndex, status, savedSnapshot, fetching, inflight,
                 resetTimers, crashed, lastUpload, sent, uploaded>>
  /\ UNCHANGED <<jvars, svars, mvars, qvars>>

\* handleUpload up to its fetch: a file chosen for an image item or for the
\* audio of the selected place
UploadStart ==
  /\ Gesture /\ pageKind = "places" /\ sent < MaxRequests
  /\ selectedIndex >= 0 /\ selectedIndex < Len(rows)
  /\ \E listKey \in {"images", "audio"} : \E index \in 0 .. (MaxMedia - 1) :
       /\ IF listKey = "audio" THEN index = 0
          ELSE index < Len(rows[selectedIndex + 1].images)
       /\ inflight' = inflight \cup
            {[kind |-> "upload", url |-> sent + 1, listKey |-> listKey, index |-> index,
              sel |-> selectedIndex, place |-> rows[selectedIndex + 1].id,
              images |-> rows[selectedIndex + 1].images, snapshot |-> <<>>]}
  /\ status' = "saving"
  /\ sent' = sent + 1
  /\ gestures' = gestures + 1
  /\ UNCHANGED <<pageKind, rows, selectedIndex, savedSnapshot, fetching,
                 resetTimers, crashed, lastUpload, uploaded>>
  /\ UNCHANGED <<jvars, svars, mvars, qvars>>

\* handleUpload after its fetch has answered with a url
uploadOk(r) ==
  /\ IF r.listKey = "audio"
     THEN /\ rows' = updatePlaceAudio(rows, r.sel, r.images, r.url)
          /\ UNCHANGED crashed
     ELSE IF updateMediaListThrows(rows, r.sel)
     THEN /\ crashed' = TRUE
          /\ UNCHANGED rows
     ELSE /\ rows' = updateMediaList(rows, r.sel, r.index, r.url)
          /\ UNCHANGED crashed
  /\ status' = "idle"
  /\ lastUpload' = [done |-> TRUE, ok |-> TRUE, url |-> r.url, listKey |-> r.listKey,
                    index |-> r.index, place |-> r.place, before |-> rows,
                    after |-> rows']

\* the answer of an upload: a url, or no success
UploadDone ==
  /\ ~crashed
  /\ \E r \in inflight :
       /\ r.kind = "upload"
       /\ inflight' = inflight \ {r}
       /\ \/ uploadOk(r)
          \/ /\ status' = "error"
             /\ lastUpload' = [lastUpload EXCEPT !.done = TRUE, !.ok = FALSE]
             /\ UNCHANGED <<rows, crashed>>
  /\ uploaded' = uploaded + 1
  /\ UNCHANGED <<pageKind, selectedIndex, savedSnapshot, fetching, resetTimers,
                 sent, gestures>>
  /\ UNCHANGED <<jvars, svars, mvars, qvars>>

\* handleSave up to its fetch; the button is disabled while status is saving
PageSave ==
  /\ Gesture /\ sent < MaxRequests
  /\ status # "saving"
  /\ rows # savedSnapshot
  /\ inflight' = inflight \cup
       {[kind |-> "save", url |-> sent + 1, listKey |-> "", index |-> 0, sel |-> 0,
         place |-> 0, images |-> <<>>, snapshot |-> rows]}
  /\ status' = "saving"
  /\ sent' = sent + 1
  /\ gestures' = gestures + 1
  /\ UNCHANGED <<pageKind, rows, selectedIndex, savedSnapshot, fetching,
                 resetTimers, crashed, lastUpload, uploaded>>
  /\ UNCHANGED <<jvars, svars, mvars, qvars>>

\* handleSave after its fetch has answered
PageSaveDone ==
  /\ ~crashed
  /\ \E r \in inflight :
       /\ r.kind = "save"
       /\ inflight' = inflight \ {r}
       /\ \/ /\ status' = "saved"
             /\ savedSnapshot' = r.snapshot
             /\ resetTimers' = resetTimers + 1
          \/ /\ status' = "error"
             /\ UNCHANGED <<savedSnapshot, resetTimers>>
  /\ UNCHANGED <<pageKind, rows, selectedIndex, fetching, crashed, lastUpload,
                 sent, uploaded, gestures>>
  /\ UNCHANGED <<jvars, svars, mvars, qvars>>

\* window.setTimeout(() => setStatus("idle"), 1200) of a successful save
StatusReset ==
  /\ ~crashed /\ resetTimers > 0
  /\ status' = "idle"
  /\ resetTimers' = resetTimers - 1
  /\ UNCHANGED <<pageKind, rows, selectedIndex, savedSnapshot, fetching, inflight,
                 crashed, lastUpload, sent, uploaded, gestures>>
  /\ UNCHANGED <<jvars, svars, mvars, qvars>>

\* the page has mounted: the effect has set status and started the load
PageInit ==
  /\ JIdle /\ StoreIdle /\ MapIdle /\ QuizIdle
  /\ pageKind \in {"places", "routes"}
  /\ rows = <<>> /\ selectedIndex = -1
  /\ status = "loading" /\ savedSnapshot = NoSnapshot /\ fetching = TRUE
  /\ inflight = {} /\ resetTimers = 0 /\ crashed = FALSE
  /\ lastUpload = NoUpload /\ sent = 0 /\ uploaded = 0 /\ gestures = 0

PageNext ==
  \/ PageLoadDone
  \/ PageSelect
  \/ PageAdd
  \/ PageRemove
  \/ MediaEdit
  \/ UploadStart
  \/ UploadDone
  \/ PageSave
  \/ PageSaveDone
  \/ StatusReset

SpecPage == PageInit /\ [][PageNext]_vars

\* ========================================================== page claims

\* the place of the upload, with the url in the slot the upload was for
withUrl(row, u) ==
  IF u.listKey = "audio" THEN [row EXCEPT !.audio = u.url]
  ELSE [row EXCEPT !.images =
          [padTo(@, u.index + 1, HoleItem) EXCEPT ![u.index + 1].url = u.url]]

\* C21: when an upload for a media slot of the then-selected place answers,
\* its url is written to that slot of that place and nothing else of any
\* place changes, whatever the user selected, added, removed or edited
\* while it was under way.
C21_UploadHitsItsSlot ==
  (lastUpload.done /\ lastUpload.ok)
    => /\ ~crashed
       /\ Len(lastUpload.after) = Len(lastUpload.before)
       /\ \A i \in 1 .. Len(lastUpload.before) :
            lastUpload.after[i] =
              IF lastUpload.before[i].id = lastUpload.place
              THEN withUrl(lastUpload.before[i], lastUpload)
              ELSE lastUpload.before[i]
       /\ \E i \in 1 .. Len(lastUpload.before) :
            lastUpload.before[i].id = lastUpload.place

\* C27: through load completion, select, add and remove the selection stays
\* inside the array: -1 <= selectedIndex < length, and -1 exactly when the
\* array is empty.
C27_SelectionInRange ==
  uploaded = 0
    => /\ -1 <= selectedIndex /\ selectedIndex < Len(rows)
       /\ selectedIndex = -1 <=> rows = <<>>

\* two rows were loaded, the second selected, and both removed
C27_Witness ==
  /\ uploaded = 0 /\ ~fetching /\ Len(savedSnapshot) = 2
  /\ rows = <<>> /\ selectedIndex = -1 /\ gestures = 3

\* C28: while a save or an upload is under way the status line says saving.
C28_SavingWhileInFlight ==
  (inflight # {} /\ ~crashed) => status = "saving"

\* ================================================================= quiz
\* Part 4: the quiz tab.  The richer variant keeps NumSets question sets
\* (10 in the code) and the answers, the submitted flag and the score of
\* each; the simpler one keeps a single set, held here as set 0, always
\* the active one.

\* quiz.json: a question of two options and one of a single option,
\* answerIndex counted from 1
QuizData ==
  << [id |-> "a", options |-> 2, answerIndex |-> 1],
     [id |-> "b", options |-> 1, answerIndex |-> 1] >>
QuizIds == {"a", "b"}

\* an answer not given (undefined); no option index and no answerIndex
NoAnswer == -2

\* quizBank: the richer variant moves answerIndex to a position from 0
\* inside the options, the simpler one keeps it
quizBank(q) ==
  IF quizVariant = "rich"
  THEN [q EXCEPT !.answerIndex = Max2(0, Min2(q.options - 1, q.answerIndex - 1))]
  ELSE q

\* shuffleQuizOptions: the answer moves with its option to any position;
\* findIndex gives -1 when answerIndex names no option
shuffleQuizOptions(q) ==
  IF q.answerIndex \in 0 .. (q.options - 1)
  THEN { [q EXCEPT !.answerIndex = k] : k \in 0 .. (q.options - 1) }
  ELSE { [q EXCEPT !.answerIndex = -1] }

\* pickRandomItems(quizBank, 10).map(shuffleQuizOptions): the bank has fewer
\* than 10 questions, so every question is picked, in any order
QuestionSets ==
  { set \in [1 .. Len(QuizData) -> UNION { shuffleQuizOptions(quizBank(QuizData[i]))
                                            : i \in 1 .. Len(QuizData) }] :
      \A i, j \in 1 .. Len(QuizData) : i # j => set[i].id # set[j].id }

\* the number of sets a variant keeps
setCount == IF quizVariant = "rich" THEN NumSets ELSE 1

NoAnswers == [id \in QuizIds |-> NoAnswer]

\* displayQuizQuestions
displayQuizQuestions ==
  IF activeQuizIndex >= 0 /\ activeQuizIndex < Len(quizSets)
  THEN quizSets[activeQuizIndex + 1] ELSE <<>>

\* the reduce of handleQuizSubmit
scoreOf(questions, answers) ==
  Cardinality({ i \in 1 .. Len(questions) :
                  answers[questions[i].id] = questions[i].answerIndex })

\* a flag that would never lock a set
isSubmittedNever(k) == FALSE
\* quizSubmittedBySet[activeQuizIndex]
isSubmitted(k) == quizSubmittedBySet[k + 1]

\* generateQuizSet
generateQuizSet ==
  /\ quizSets' \in [1 .. setCount -> QuestionSets]
  /\ quizAnswersBySet' = [k \in 1 .. setCount |-> NoAnswers]
  /\ quizSubmittedBySet' = [k \in 1 .. setCount |-> FALSE]
  /\ quizScoreBySet' = [k \in 1 .. setCount |-> NoAnswer]
  /\ activeQuizIndex' = IF quizVariant = "rich" THEN -1 ELSE 0
  /\ regenerated' = TRUE
  /\ UNCHANGED quizVariant
  /\ UNCHANGED <<jvars, svars, mvars, pvars>>

\* the effect on activeTab: the user opens the quiz tab for the first time
OpenQuizTab ==
  /\ \A k \in 1 .. Len(quizSets) : quizSets[k] = <<>>
  /\ generateQuizSet

\* a click on one of the set buttons (richer variant)
SelectSet ==
  /\ quizVariant = "rich"
  /\ \E index \in 0 .. (NumSets - 1) :
       /\ index < Len(quizSets) /\ index # activeQuizIndex
       /\ activeQuizIndex' = index
  /\ regenerated' = FALSE
  /\ UNCHANGED <<quizVariant, quizSets, quizAnswersBySet, quizSubmittedBySet,
                 quizScoreBySet>>
  /\ UNCHANGED <<jvars, svars, mvars, pvars>>

handleQuizAnswer ==
  /\ activeQuizIndex >= 0
  /\ ~isSubmitted(activeQuizIndex)
  /\ \E q \in 1 .. Len(QuizData) : \E optionIndex \in 0 .. 1 :
       /\ q <= Len(displayQuizQuestions)
       /\ optionIndex < displayQuizQuestions[q].options
       /\ quizAnswersBySet' =
            [quizAnswersBySet EXCEPT
               ![activeQuizIndex + 1][displayQuizQuestions[q].id] = optionIndex]
  /\ regenerated' = FALSE
  /\ UNCHANGED <<quizVariant, quizSets, quizSubmittedBySet, quizScoreBySet,
                 activeQuizIndex>>
  /\ UNCHANGED <<jvars, svars, mvars, pvars>>

handleQuizSubmit ==
  /\ activeQuizIndex >= 0
  /\ ~isSubmitted(activeQuizIndex)
  /\ quizScoreBySet' =
       [quizScoreBySet EXCEPT ![activeQuizIndex + 1] =
          scoreOf(displayQuizQuestions, quizAnswersBySet[activeQuizIndex + 1])]
  /\ quizSubmittedBySet' = [quizSubmittedBySet EXCEPT ![activeQuizIndex + 1] = TRUE]
  /\ regenerated' = FALSE
  /\ UNCHANGED <<quizVariant, quizSets, quizAnswersBySet, activeQuizIndex>>
  /\ UNCHANGED <<jvars, svars, mvars, pvars>>

\* handleQuizNext short of the last set: the next set becomes the active one
NextSet ==
  /\ quizVariant = "rich"
  /\ activeQuizIndex < Len(quizSets) - 1
  /\ activeQuizIndex' = Min2(activeQuizIndex + 1, Len(quizSets) - 1)
  /\ regenerated' = FALSE
  /\ UNCHANGED <<quizVariant, quizSets, quizAnswersBySet, quizSubmittedBySet,
                 quizScoreBySet>>
  /\ UNCHANGED <<jvars, svars, mvars, pvars>>

\* handleQuizNext on the last set, and in the simpler variant: new sets
NextGenerate ==
  /\ quizVariant = "rich" => activeQuizIndex >= Len(quizSets) - 1
  /\ generateQuizSet

\* the component mounts on the journey tab: no set in the richer variant,
\* an empty set in the simpler one
QuizInit ==
  /\ JIdle /\ StoreIdle /\ MapIdle /\ PageIdle
  /\ quizVariant \in {"rich", "simple"}
  /\ quizSets = IF quizVariant = "rich" THEN <<>> ELSE << <<>> >>
  /\ quizAnswersBySet = IF quizVariant = "rich" THEN <<>> ELSE <<NoAnswers>>
  /\ quizSubmittedBySet = IF quizVariant = "rich" THEN <<>> ELSE <<FALSE>>
  /\ quizScoreBySet = IF quizVariant = "rich" THEN <<>> ELSE <<NoAnswer>>
  /\ activeQuizIndex = IF quizVariant = "rich" THEN -1 ELSE 0
  /\ regenerated = FALSE

QuizNext ==
  \/ OpenQuizTab
  \/ SelectSet
  \/ handleQuizAnswer
  \/ handleQuizSubmit
  \/ NextSet
  \/ NextGenerate

SpecQuiz == QuizInit /\ [][QuizNext]_vars

\* ========================================================== quiz claims

\* the sets are the same after the step: it was not a generateQuizSet
sameSets == ~regenerated'

\* C30: once a set is submitted, answer selections and submits for it are
\* ignored: its answers and its score stay as they are until the sets are
\* regenerated; and the score is the number of its questions whose chosen
\* option is answerIndex, between 0 and the number of questions.
C30_SubmittedLocked ==
  /\ [][sameSets =>
          \A k \in 1 .. Len(quizSets) :
            quizSubmittedBySet[k]
              => /\ quizSubmittedBySet'[k]
                 /\ quizAnswersBySet'[k] = quizAnswersBySet[k]
                 /\ quizScoreBySet'[k] = quizScoreBySet[k]]_vars
  /\ [](\A k \in 1 .. Len(quizSets) :
          quizSubmittedBySet[k]
            => /\ quizScoreBySet[k] = scoreOf(quizSets[k], quizAnswersBySet[k])
               /\ quizScoreBySet[k] >= 0 /\ quizScoreBySet[k] <= Len(quizSets[k]))

\* a submitted set with one right and one wrong answer, while another set
\* is being answered
C30_Witness ==
  /\ quizVariant = "rich" /\ activeQuizIndex = 1
  /\ quizSubmittedBySet[1] /\ quizScoreBySet[1] = 1
  /\ \A id \in QuizIds : quizAnswersBySet[1][id] # NoAnswer
  /\ ~quizSubmittedBySet[2] /\ quizAnswersBySet[2]["a"] # NoAnswer

====
